---- MODULE Spec2Model ----
(***************************************************************************)
(* Model of the safety-limited agent loop of                                *)
(* etl_agent/agent/safe_agent_orchestrator.py (SafeAgentOrchestrator) and   *)
(* of the tool dispatcher of etl_agent/tools/agent_tools.py (AgentTools).   *)
(*                                                                         *)
(* Money is counted in micro-dollars, so that the cost formula              *)
(* (tokens / 1000) * rate is exact: 0.003 $ per 1K tokens is 3 micro-$ per  *)
(* token.  Strings that the code scans (SQL queries) are sequences of       *)
(* one-character strings; strings that it only passes around are strings.   *)
(* An exception is a record; raising is returning that record as verdict.   *)
(***************************************************************************)
EXTENDS Integers, Sequences, FiniteSets, TLC

VARIABLES
    limits,                \* self.limits: AgentLimits, fixed for the orchestrator
    script,                \* the script of the model backend of this run
    stats,                 \* self.stats: AgentStats (iterations, claude_calls, total_cost, tool_calls)
    elapsed,               \* time.time() - self.stats.start_time, in seconds
    conversation_history,  \* self.conversation_history
    final_response,        \* local of run()
    pc,                    \* position of run()
    response,              \* local of run(): the model response being handled
    tool_uses,             \* local of run(): the tool_use blocks of the response
    tool_results,          \* local of run(): results of this turn so far
    idx,                   \* position of the for loop over tool_uses
    result,                \* local of run(): what execute_tool returned
    raised,                \* the exception that ended the try block, if any
    outcome,               \* the dict run() returned
    requested,             \* history: requests that reached _check_tool_limit, per tool
    dispatched,            \* history: invocations of execute_tool, per tool
    sys_stdout,            \* sys.stdout of the process: the stream print() writes to
    threads,               \* the threads inside _execute_python_code: position and locals
    cache,                 \* self.tools._cache: cache key -> the text a read handler returned
    storage_reads,         \* history: reads of the storage, per cache key
    offered                \* history: the tools argument of the latest model call

vars == << limits, script, stats, elapsed, conversation_history, final_response,
           pc, response, tool_uses, tool_results, idx, result, raised, outcome,
           requested, dispatched, sys_stdout, threads, cache, storage_reads, offered >>

(***************************************************************************)
(* Bounds of the model.                                                     *)
(***************************************************************************)
MaxIter == 3            \* largest max_iterations tried
MaxToolsPerTurn == 2    \* most content blocks the backend puts in one response
MaxClock == 1           \* the clock stops advancing here
MaxWords == 3           \* most words in a query handed to _validate_sql alone
MaxCalls == 6           \* largest small tool counter handed to _check_tool_limit alone
NumThreads == 2         \* requests served at the same time by one process
MaxTokens == 2          \* largest small token count in a usage report

(***************************************************************************)
(* Text: characters, upper(), substring search.                             *)
(***************************************************************************)
LowerLetters == << "a","b","c","d","e","f","g","h","i","j","k","l","m",
                   "n","o","p","q","r","s","t","u","v","w","x","y","z" >>
UpperLetters == << "A","B","C","D","E","F","G","H","I","J","K","L","M",
                   "N","O","P","Q","R","S","T","U","V","W","X","Y","Z" >>

\* str.upper() on one character
UpperChar(c) ==
    IF \E k \in 1..Len(LowerLetters) : LowerLetters[k] = c
    THEN UpperLetters[CHOOSE k \in 1..Len(LowerLetters) : LowerLetters[k] = c]
    ELSE c

\* str.upper()
Upper(s) == [k \in 1..Len(s) |-> UpperChar(s[k])]

\* needle in hay
Contains(hay, needle) ==
    \E k \in 0..(Len(hay) - Len(needle)) : SubSeq(hay, k + 1, k + Len(needle)) = needle

KW_DELETE   == << "D","E","L","E","T","E" >>
KW_DROP     == << "D","R","O","P" >>
KW_TRUNCATE == << "T","R","U","N","C","A","T","E" >>
KW_UPDATE   == << "U","P","D","A","T","E" >>
KW_INSERT   == << "I","N","S","E","R","T" >>
KW_ALTER    == << "A","L","T","E","R" >>
KW_LIMIT    == << "L","I","M","I","T" >>
KW_SELECT   == << "S","E","L","E","C","T" >>

\* AgentLimits.sql_block_keywords, in list order
DefaultSqlBlockKeywords == << KW_DELETE, KW_DROP, KW_TRUNCATE, KW_UPDATE, KW_INSERT, KW_ALTER >>

\* "select * from vendite limit 10"
Q_SelectLimit == << "s","e","l","e","c","t"," ","*"," ","f","r","o","m"," ",
                    "v","e","n","d","i","t","e"," ","l","i","m","i","t"," ","1","0" >>
\* "SELECT * FROM vendite"
Q_SelectNoLimit == << "S","E","L","E","C","T"," ","*"," ","F","R","O","M"," ",
                      "v","e","n","d","i","t","e" >>
\* "delete from vendite limit 10"
Q_DeleteLimit == << "d","e","l","e","t","e"," ","f","r","o","m"," ",
                    "v","e","n","d","i","t","e"," ","l","i","m","i","t"," ","1","0" >>

\* the words the queries tried are made of: keywords in several letter cases,
\* identifiers that contain a keyword, and neutral words
W_SELECT     == << "S","E","L","E","C","T" >>
W_vendite    == << "v","e","n","d","i","t","e" >>
W_delete     == << "d","e","l","e","t","e" >>
W_Drop       == << "D","r","o","p" >>
W_LiMiT      == << "L","i","M","i","T" >>
W_updated_at == << "u","p","d","a","t","e","d","_","a","t" >>
W_10         == << "1","0" >>

SqlWords == { W_SELECT, W_vendite, W_delete, W_Drop, W_LiMiT, W_updated_at, W_10 }

\* " ".join(ws)
RECURSIVE Join(_)
Join(ws) ==
    IF Len(ws) = 0 THEN << >>
    ELSE IF Len(ws) = 1 THEN ws[1]
    ELSE ws[1] \o << " " >> \o Join(Tail(ws))

\* the queries tried: up to MaxWords words separated by one space
Queries == { Join(ws) : ws \in UNION { [1..n -> SqlWords] : n \in 0..MaxWords } }

(***************************************************************************)
(* Exceptions.                                                              *)
(***************************************************************************)
NoException == [type |-> "none", kind |-> "none", message |-> ""]

LimitExceededError(kind, message) ==
    [type |-> "LimitExceededError", kind |-> kind, message |-> message]

\* any other subclass of Exception
Exception(kind, message) == [type |-> "Exception", kind |-> kind, message |-> message]

KeyboardInterrupt == [type |-> "KeyboardInterrupt", kind |-> "cancelled", message |-> ""]

\* a BaseException that is no Exception: sys.exit() reached through a module
\* handed to the sandboxed code
SystemExit == [type |-> "SystemExit", kind |-> "exit", message |-> ""]

(***************************************************************************)
(* AgentLimits, AgentStats.                                                 *)
(***************************************************************************)
\* AgentLimits.tool_limits default
DefaultToolLimits ==
    [execute_sql_query |-> 5, execute_python_code |-> 3, read_sql_code |-> 2,
     read_brb_requirements |-> 2, read_quadratura_results |-> 2]

\* AgentLimits(...) with the fields a caller may override
AgentLimits(max_iterations, max_claude_calls, max_total_cost, max_time_seconds, tool_limits) ==
    [max_iterations |-> max_iterations,
     max_claude_calls |-> max_claude_calls,
     max_total_cost |-> max_total_cost,
     max_time_seconds |-> max_time_seconds,
     tool_limits |-> tool_limits,
     sql_max_rows |-> 10000,
     sql_require_limit |-> TRUE,
     sql_block_keywords |-> DefaultSqlBlockKeywords]

\* AgentStats(): the state of a fresh orchestrator; tool_calls is a defaultdict(int)
AgentStats == [iterations |-> 0, claude_calls |-> 0, total_cost |-> 0, tool_calls |-> << >>]

\* reading d[key] of a defaultdict(int): the value, 0 when the key is absent
DefaultDictGet(d, key) == IF key \in DOMAIN d THEN d[key] ELSE 0

\* a read of d[key] that counts as a call
DefaultDictTouchCounts(d, key) ==
    [k \in DOMAIN d \cup {key} |-> IF k = key THEN DefaultDictGet(d, key) + 1 ELSE d[k]]

\* the defaultdict after d[key] was read: an absent key is inserted with 0
DefaultDictTouch(d, key) ==
    IF key \in DOMAIN d THEN d ELSE [k \in DOMAIN d \cup {key} |-> IF k = key THEN 0 ELSE d[k]]

\* the defaultdict after d[key] += 2
DefaultDictIncrTwo(d, key) ==
    [k \in DOMAIN d \cup {key} |-> IF k = key THEN DefaultDictGet(d, key) + 2 ELSE d[k]]

\* the defaultdict after d[key] += 1
DefaultDictIncr(d, key) ==
    [k \in DOMAIN d \cup {key} |-> IF k = key THEN DefaultDictGet(d, key) + 1 ELSE d[k]]

\* sum(d.values())
RECURSIVE SumValues(_)
SumValues(d) ==
    IF DOMAIN d = {} THEN 0
    ELSE LET k == CHOOSE x \in DOMAIN d : TRUE
         IN d[k] + SumValues([x \in DOMAIN d \ {k} |-> d[x]])

(***************************************************************************)
(* SafeAgentOrchestrator: the checks and the cost estimate.                 *)
(***************************************************************************)
\* _check_limits with the iteration test left out
CheckLimitsNoIterations(st, lim, el) ==
    IF st.claude_calls >= lim.max_claude_calls
    THEN LimitExceededError("model_calls", "Max chiamate Claude raggiunto")
    ELSE IF st.total_cost >= lim.max_total_cost
    THEN LimitExceededError("cost", "Budget superato")
    ELSE IF el >= lim.max_time_seconds
    THEN LimitExceededError("timeout", "Timeout")
    ELSE NoException

\* _check_limits with > for >= in the iteration test
CheckLimitsIterationsStrict(st, lim, el) ==
    IF st.iterations > lim.max_iterations
    THEN LimitExceededError("iterations", "Max iterations raggiunto")
    ELSE CheckLimitsNoIterations(st, lim, el)

\* _check_limits with the cost test before the model-call test
CheckLimitsCostFirst(st, lim, el) ==
    IF st.iterations >= lim.max_iterations
    THEN LimitExceededError("iterations", "Max iterations raggiunto")
    ELSE IF st.total_cost >= lim.max_total_cost
    THEN LimitExceededError("cost", "Budget superato")
    ELSE IF st.claude_calls >= lim.max_claude_calls
    THEN LimitExceededError("model_calls", "Max chiamate Claude raggiunto")
    ELSE IF el >= lim.max_time_seconds
    THEN LimitExceededError("timeout", "Timeout")
    ELSE NoException

\* _check_limits without the time test
CheckLimitsNoTimeout(st, lim, el) ==
    IF st.iterations >= lim.max_iterations
    THEN LimitExceededError("iterations", "Max iterations raggiunto")
    ELSE IF st.claude_calls >= lim.max_claude_calls
    THEN LimitExceededError("model_calls", "Max chiamate Claude raggiunto")
    ELSE IF st.total_cost >= lim.max_total_cost
    THEN LimitExceededError("cost", "Budget superato")
    ELSE NoException

\* _check_limits with > for >= in the model-call test and the cost test
CheckLimitsBudgetStrict(st, lim, el) ==
    IF st.iterations >= lim.max_iterations
    THEN LimitExceededError("iterations", "Max iterations raggiunto")
    ELSE IF st.claude_calls > lim.max_claude_calls
    THEN LimitExceededError("model_calls", "Max chiamate Claude raggiunto")
    ELSE IF st.total_cost > lim.max_total_cost
    THEN LimitExceededError("cost", "Budget superato")
    ELSE IF el >= lim.max_time_seconds
    THEN LimitExceededError("timeout", "Timeout")
    ELSE NoException

\* _check_limits: the exception it raises, NoException when it returns
CheckLimits(st, lim, el) ==
    IF st.iterations >= lim.max_iterations
    THEN LimitExceededError("iterations", "Max iterations raggiunto")
    ELSE IF st.claude_calls >= lim.max_claude_calls
    THEN LimitExceededError("model_calls", "Max chiamate Claude raggiunto")
    ELSE IF st.total_cost >= lim.max_total_cost
    THEN LimitExceededError("cost", "Budget superato")
    ELSE IF el >= lim.max_time_seconds
    THEN LimitExceededError("timeout", "Timeout")
    ELSE NoException

\* the default of tool_limits.get(tool_name, 999)
DefaultToolLimit == 999

\* limit = self.limits.tool_limits.get(tool_name, 999)
ToolLimit(lim, tool_name) ==
    IF tool_name \in DOMAIN lim.tool_limits THEN lim.tool_limits[tool_name] ELSE DefaultToolLimit

\* _check_tool_limit with > for >=
CheckToolLimitStrict(st, lim, tool_name) ==
    IF DefaultDictGet(st.tool_calls, tool_name) > ToolLimit(lim, tool_name)
    THEN LimitExceededError("tool_quota", "Tool limit raggiunto")
    ELSE NoException

\* _check_tool_limit: the exception it raises, NoException when it returns
CheckToolLimit(st, lim, tool_name) ==
    IF DefaultDictGet(st.tool_calls, tool_name) >= ToolLimit(lim, tool_name)
    THEN LimitExceededError("tool_quota", "Tool limit raggiunto")
    ELSE NoException

\* COST_PER_1K_TOKENS, in micro-dollars per token
CostPerTokenInput == 3
CostPerTokenOutput == 15

\* _estimate_cost rounded to the cent, as for display
EstimateCostRounded(usage) ==
    ((usage.input_tokens * CostPerTokenInput + usage.output_tokens * CostPerTokenOutput
      + 5000) \div 10000) * 10000

\* _estimate_cost, in micro-dollars; reading a missing usage field raises AttributeError
EstimateCost(usage) ==
    usage.input_tokens * CostPerTokenInput + usage.output_tokens * CostPerTokenOutput

\* the first keyword of sql_block_keywords found in the uppercased query, 0 when none
FirstBlockedKeyword(sql_query, lim) ==
    LET sql_upper == Upper(sql_query)
        hits == { k \in 1..Len(lim.sql_block_keywords) :
                    Contains(sql_upper, lim.sql_block_keywords[k]) }
    IN IF hits = {} THEN 0 ELSE CHOOSE k \in hits : \A h \in hits : k <= h

\* _validate_sql with the two tests in the other order
ValidateSqlLimitFirst(sql_query, lim) ==
    IF lim.sql_require_limit /\ ~Contains(Upper(sql_query), KW_LIMIT)
    THEN LimitExceededError("sql_missing_limit", "Query SQL deve includere LIMIT")
    ELSE IF FirstBlockedKeyword(sql_query, lim) # 0
    THEN LimitExceededError("sql_blocked_keyword", "Query SQL contiene keyword bloccata")
    ELSE NoException

\* _validate_sql without the LIMIT test
ValidateSqlKeywordsOnly(sql_query, lim) ==
    IF FirstBlockedKeyword(sql_query, lim) # 0
    THEN LimitExceededError("sql_blocked_keyword", "Query SQL contiene keyword bloccata")
    ELSE NoException

\* _validate_sql: the exception it raises, NoException when it returns
ValidateSql(sql_query, lim) ==
    IF FirstBlockedKeyword(sql_query, lim) # 0
    THEN LimitExceededError("sql_blocked_keyword", "Query SQL contiene keyword bloccata")
    ELSE IF lim.sql_require_limit /\ ~Contains(Upper(sql_query), KW_LIMIT)
    THEN LimitExceededError("sql_missing_limit", "Query SQL deve includere LIMIT")
    ELSE NoException

(***************************************************************************)
(* AgentTools: the registry and the dispatcher.                             *)
(***************************************************************************)
\* get_tool_definitions() leaving out the tools the run has used
ToolDefinitionNamesUnused ==
    SelectSeq(<< "read_sql_code", "read_brb_requirements", "read_quadratura_results",
                 "list_available_etls", "analyze_code_section", "validate_sql_syntax",
                 "execute_python_code", "execute_sql_query" >>,
              LAMBDA n : n \notin DOMAIN stats.tool_calls)

\* the names of get_tool_definitions(), in order
ToolDefinitionNames ==
    << "read_sql_code", "read_brb_requirements", "read_quadratura_results",
       "list_available_etls", "analyze_code_section", "validate_sql_syntax",
       "execute_python_code", "execute_sql_query" >>

\* tool_methods without the entry of execute_sql_query
ToolMethodsWithoutSql ==
    { "read_sql_code", "read_brb_requirements", "read_quadratura_results",
      "list_available_etls", "analyze_code_section", "validate_sql_syntax",
      "execute_python_code" }

\* the keys of tool_methods in execute_tool
ToolMethods ==
    { "read_sql_code", "read_brb_requirements", "read_quadratura_results",
      "list_available_etls", "analyze_code_section", "validate_sql_syntax",
      "execute_python_code", "execute_sql_query" }

\* a tool_use input: the keys present and the values the handlers read
ToolInput(keys, etl_name, query, code) ==
    [keys |-> keys, etl_name |-> etl_name, query |-> query, code |-> code]

\* the two programs the model hands to execute_python_code here
CodeResult == "result = 1"
CodeExit == "json.codecs.sys.exit(1)"

HandlerReturn(value) == [kind |-> "return", value |-> value]
HandlerRaise(message) == [kind |-> "raise", value |-> message]
HandlerExit == [kind |-> "exit", value |-> ""]

\* the handlers that keep what they read in self._cache
CachingReaders == { "read_sql_code", "read_brb_requirements", "read_quadratura_results" }

\* cache_key = f"sql_{etl_name}", f"brb_{etl_name}", f"quad_{etl_name}"
CacheKey(tool_name, etl_name) ==
    << CASE tool_name = "read_sql_code" -> "sql"
         [] tool_name = "read_brb_requirements" -> "brb"
         [] OTHER -> "quad",
       etl_name >>

\* the text a caching reader builds from what it read
ReadText(tool_name) ==
    CASE tool_name = "read_sql_code" -> "Codice SQL"
      [] tool_name = "read_brb_requirements" -> "Business Requirements Baseline"
      [] OTHER -> "Risultati Quadratura"

\* str.rstrip(chars): the string without its trailing characters of chars
RECURSIVE RStrip(_, _)
RStrip(s, chars) ==
    IF Len(s) > 0 /\ s[Len(s)] \in chars
    THEN RStrip(SubSeq(s, 1, Len(s) - 1), chars)
    ELSE s

\* the characters str.rstrip() removes that the queries tried contain
Whitespace == { " " }

\* " LIMIT 1000"
LimitSuffix == << " ","L","I","M","I","T"," ","1","0","0","0" >>

\* _execute_sql_query, the auto-fix: the query handed to cursor.execute
ExecutedQuery(query) ==
    IF ~Contains(Upper(query), KW_LIMIT) /\ Contains(Upper(query), KW_SELECT)
    THEN RStrip(RStrip(query, { ";" }), Whitespace) \o LimitSuffix
    ELSE query

\* what _execute_sql_query returns: a text that quotes the query it executed
SqlResponse(query) == [text |-> "Query eseguita", query |-> ExecutedQuery(query)]

\* the handlers as if there were no cache: a reader reads the storage on every call
HandlerOutcomesNoCache(tool_name, tool_input) ==
    CASE tool_name \in CachingReaders ->
           IF "etl_name" \notin tool_input.keys
           THEN { HandlerRaise("KeyError: etl_name") }
           ELSE { HandlerReturn(ReadText(tool_name)), HandlerRaise("File non trovato") }
      [] tool_name = "execute_sql_query" ->
           IF "query" \notin tool_input.keys
           THEN { HandlerRaise("KeyError: query") }
           ELSE { HandlerReturn(SqlResponse(tool_input.query)) }
      [] tool_name = "execute_python_code" ->
           IF "code" \notin tool_input.keys
           THEN { HandlerRaise("KeyError: code") }
           ELSE IF tool_input.code = CodeExit
           THEN { HandlerExit }
           ELSE { HandlerReturn("Esecuzione completata") }
      [] OTHER -> { HandlerReturn("ok"), HandlerRaise("errore") }

\* tool_methods[tool_name](tool_input): what the handler can do; a caching reader
\* returns what self._cache holds for its key, and reads the storage, which can
\* fail, only when the key is not there
HandlerOutcomes(tool_name, tool_input) ==
    CASE tool_name \in CachingReaders ->
           IF "etl_name" \notin tool_input.keys
           THEN { HandlerRaise("KeyError: etl_name") }
           ELSE IF CacheKey(tool_name, tool_input.etl_name) \in DOMAIN cache
           THEN { HandlerReturn(cache[CacheKey(tool_name, tool_input.etl_name)]) }
           ELSE { HandlerReturn(ReadText(tool_name)), HandlerRaise("File non trovato") }
      [] tool_name = "execute_sql_query" ->
           IF "query" \notin tool_input.keys
           THEN { HandlerRaise("KeyError: query") }
           ELSE { HandlerReturn(SqlResponse(tool_input.query)) }
      [] tool_name = "execute_python_code" ->
           IF "code" \notin tool_input.keys
           THEN { HandlerRaise("KeyError: code") }
           ELSE IF tool_input.code = CodeExit
           THEN { HandlerExit }
           ELSE { HandlerReturn("Esecuzione completata") }
      [] OTHER -> { HandlerReturn("ok"), HandlerRaise("errore") }

\* what execute_tool does with one handler outcome: the exception that leaves
\* execute_tool (NoException when it returns) and the dict it returns
WrapOutcome(o) ==
    CASE o.kind = "return" -> [raises |-> NoException, value |-> [success |-> TRUE, result |-> o.value]]
      [] o.kind = "raise"  -> [raises |-> NoException, value |-> [success |-> FALSE, error |-> o.value]]
      [] o.kind = "exit"   -> [raises |-> SystemExit, value |-> [success |-> FALSE, error |-> ""]]

\* execute_tool without the membership test, the lookup outside the try
ExecuteToolLookupRaises(tool_name, tool_input) ==
    IF tool_name \notin ToolMethods
    THEN { [raises |-> Exception("KeyError", tool_name),
            value |-> [success |-> FALSE, error |-> ""]] }
    ELSE { WrapOutcome(o) : o \in HandlerOutcomes(tool_name, tool_input) }

\* execute_tool(tool_name, tool_input): the set of its possible outcomes
ExecuteTool(tool_name, tool_input) ==
    IF tool_name \notin ToolMethods
    THEN { [raises |-> NoException,
            value |-> [success |-> FALSE, error |-> "Tool non trovato"]] }
    ELSE { WrapOutcome(o) : o \in HandlerOutcomes(tool_name, tool_input) }

\* json.dumps(result): the text of a dict
JsonDumps(d) == [json |-> d]

\* the call reaches the storage: a caching reader, its argument given, its key not
\* in self._cache
CacheMiss(tool_name, tool_input) ==
    /\ tool_name \in CachingReaders
    /\ "etl_name" \in tool_input.keys
    /\ CacheKey(tool_name, tool_input.etl_name) \notin DOMAIN cache

(***************************************************************************)
(* The model backend: responses of client.messages.create.                  *)
(***************************************************************************)
\* Python values: None, a str
None == [py |-> "None"]
Str(s) == [py |-> "str", value |-> s]

TextBlock(text) == [type |-> "text", text |-> text]
ToolUseBlock(id, name, input) == [type |-> "tool_use", id |-> id, name |-> name, input |-> input]

\* what the backend may put in a response: a text, or a request for a tool
T_Text       == [type |-> "text", text |-> "Analisi completata"]
T_ReadSql    == [type |-> "tool_use", name |-> "read_sql_code",
                 input |-> ToolInput({"etl_name"}, "etl_vendite", << >>, "")]
T_SqlLimit   == [type |-> "tool_use", name |-> "execute_sql_query",
                 input |-> ToolInput({"query", "purpose"}, "", Q_SelectLimit, "")]
T_SqlNoLimit == [type |-> "tool_use", name |-> "execute_sql_query",
                 input |-> ToolInput({"query", "purpose"}, "", Q_SelectNoLimit, "")]
T_SqlDelete  == [type |-> "tool_use", name |-> "execute_sql_query",
                 input |-> ToolInput({"query", "purpose"}, "", Q_DeleteLimit, "")]
T_SqlNoQuery == [type |-> "tool_use", name |-> "execute_sql_query",
                 input |-> ToolInput({"purpose"}, "", << >>, "")]
T_Python     == [type |-> "tool_use", name |-> "execute_python_code",
                 input |-> ToolInput({"code", "purpose"}, "", << >>, CodeResult)]
T_PythonExit == [type |-> "tool_use", name |-> "execute_python_code",
                 input |-> ToolInput({"code", "purpose"}, "", << >>, CodeExit)]
T_Unknown    == [type |-> "tool_use", name |-> "no_such_tool",
                 input |-> ToolInput({}, "", << >>, "")]

Templates == { T_Text, T_ReadSql, T_SqlLimit, T_SqlNoLimit, T_SqlDelete, T_SqlNoQuery,
               T_Python, T_PythonExit, T_Unknown }

\* response.usage; the last one lacks a field
Usages == { [input_tokens |-> 1000, output_tokens |-> 1000],
            [input_tokens |-> -1000, output_tokens |-> 0],
            [input_tokens |-> 1000] }

\* the script of a backend: the two kinds of block it uses, which alternate in
\* every response it gives
Scripts == { << a, b, u >> : a, b \in Templates, u \in Usages }

\* the k-th block of the response to call number n
Block(t, n, k) ==
    IF t.type = "text" THEN TextBlock(t.text) ELSE ToolUseBlock(<< n, k >>, t.name, t.input)

\* response.content: up to MaxToolsPerTurn blocks of the script
Contents(scr, n) ==
    { [k \in 1..len |-> Block(scr[2 - (k % 2)], n, k)] : len \in 0..MaxToolsPerTurn }

StopReasons == { "end_turn", "tool_use", "max_tokens" }

NoResponse == [stop_reason |-> "none", content |-> << >>, usage |-> [input_tokens |-> 0, output_tokens |-> 0]]

Responses(scr, n) ==
    { [stop_reason |-> s, content |-> c, usage |-> u] :
        s \in StopReasons, c \in Contents(scr, n), u \in {scr[3]} }

(***************************************************************************)
(* The process: sys.stdout, and the threads that run execute_python_code.   *)
(***************************************************************************)
\* the stream sys.stdout is when the process starts
Console == [stream |-> "console"]

\* the StringIO that thread i creates in _execute_python_code
StringIO(i) == [stream |-> "StringIO", of |-> i]

process == << sys_stdout, threads >>

\* the state of self.tools, the AgentTools of the orchestrator
tools == << cache, storage_reads >>

\* AgentTools(): self._cache = {}
InitTools ==
    /\ cache = << >>
    /\ storage_reads = << >>

\* no thread is inside _execute_python_code
InitProcess ==
    /\ sys_stdout = Console
    /\ threads = << >>

(***************************************************************************)
(* Initial state: a freshly constructed orchestrator, run() not yet called. *)
(***************************************************************************)
\* a tight per-tool quota map
TightToolLimits ==
    [DefaultToolLimits EXCEPT !["read_sql_code"] = 1, !["execute_sql_query"] = 0]

\* the policies tried: the generous one with each iteration limit, and the generous
\* one with one other threshold made tight
LimitConfigs ==
    { AgentLimits(mi, 20, 2000000, 120, DefaultToolLimits) : mi \in 0..MaxIter }
    \cup { AgentLimits(MaxIter, 1, 2000000, 120, DefaultToolLimits),
           AgentLimits(MaxIter, 20, 18000, 120, DefaultToolLimits),
           AgentLimits(MaxIter, 20, 2000000, 1, DefaultToolLimits),
           AgentLimits(MaxIter, 20, 2000000, 120, TightToolLimits) }

NoResult == [success |-> FALSE, error |-> ""]
NoOutcome == [py |-> "None"]

Init ==
    /\ limits \in LimitConfigs
    /\ script \in Scripts
    /\ stats = AgentStats
    /\ elapsed = 0
    /\ conversation_history = << >>
    /\ final_response = None
    /\ pc = "idle"
    /\ response = NoResponse
    /\ tool_uses = << >>
    /\ tool_results = << >>
    /\ idx = 0
    /\ result = NoResult
    /\ raised = NoException
    /\ outcome = NoOutcome
    /\ requested = << >>
    /\ dispatched = << >>
    /\ offered = IF stats.claude_calls > 0 THEN ToolDefinitionNames ELSE << >>
    /\ InitProcess
    /\ InitTools

locals == << response, tool_uses, tool_results, idx, result >>
history == << requested, dispatched, offered >>

(***************************************************************************)
(* run().                                                                   *)
(***************************************************************************)
\* the except clauses of run() without the KeyboardInterrupt clause
ExceptNoInterruptClause(exc) ==
    /\ raised' = exc
    /\ CASE exc.type = "LimitExceededError" ->
              /\ final_response' = Str("Agent fermato: " \o exc.message)
              /\ pc' = "report"
         [] exc.type = "Exception" ->
              /\ final_response' = Str("Errore: " \o exc.message)
              /\ pc' = "report"
         [] OTHER ->
              /\ pc' = "escaped"
              /\ UNCHANGED final_response

\* the except clauses of run(): what an exception raised in the try block does
Except(exc) ==
    /\ raised' = exc
    /\ CASE exc.type = "LimitExceededError" ->
              /\ final_response' = Str("Agent fermato: " \o exc.message)
              /\ pc' = "report"
         [] exc.type = "KeyboardInterrupt" ->
              /\ final_response' = Str("Esecuzione interrotta dall'utente")
              /\ pc' = "report"
         [] exc.type = "Exception" ->
              /\ final_response' = Str("Errore: " \o exc.message)
              /\ pc' = "report"
         [] OTHER ->
              /\ pc' = "escaped"
              /\ UNCHANGED final_response

\* run(task): the conversation is set to the task, final_response to None
RunStart ==
    /\ pc = "idle"
    /\ conversation_history' = << [role |-> "user", content |-> Str("task")] >>
    /\ final_response' = None
    /\ pc' = "loop"
    /\ UNCHANGED << process, tools, limits, script, stats, elapsed, locals, raised, outcome, history >>

\* the top of the loop counting an iteration only when _check_limits passes
IterateCountsOnPass ==
    /\ pc = "loop"
    /\ LET exc == CheckLimits([stats EXCEPT !.iterations = @ + 1], limits, elapsed)
       IN IF exc # NoException
          THEN Except(exc) /\ UNCHANGED stats
          ELSE /\ pc' = "call"
               /\ stats' = [stats EXCEPT !.iterations = @ + 1]
               /\ UNCHANGED << final_response, raised >>
    /\ UNCHANGED << process, tools, limits, script, elapsed, conversation_history, locals, outcome, history >>

\* top of the while loop: iterations += 1, then _check_limits()
Iterate ==
    /\ pc = "loop"
    /\ stats' = [stats EXCEPT !.iterations = @ + 1]
    /\ LET exc == CheckLimits(stats', limits, elapsed)
       IN IF exc # NoException
          THEN Except(exc)
          ELSE pc' = "call" /\ UNCHANGED << final_response, raised >>
    /\ UNCHANGED << process, tools, limits, script, elapsed, conversation_history, locals, outcome, history >>

\* client.messages.create raises
CallModelRaises ==
    /\ pc = "call"
    /\ offered' = ToolDefinitionNames
    /\ Except(Exception("APIError", "Connection error"))
    /\ UNCHANGED << process, tools, limits, script, stats, elapsed, conversation_history, locals,
                    outcome, requested, dispatched >>

\* client.messages.create returns: the stats are updated and the stop reason decides
CallModelReturns ==
    /\ pc = "call"
    /\ offered' = ToolDefinitionNames
    /\ \E r \in Responses(script, stats.iterations) :
         IF "output_tokens" \notin DOMAIN r.usage
         THEN \* claude_calls is counted, then _estimate_cost fails on the usage
              /\ stats' = [stats EXCEPT !.claude_calls = @ + 1]
              /\ Except(Exception("AttributeError", "no attribute output_tokens"))
              /\ response' = r
              /\ UNCHANGED << tool_uses, tool_results, idx, result >>
         ELSE /\ stats' = [stats EXCEPT !.claude_calls = @ + 1,
                                        !.total_cost = @ + EstimateCost(r.usage)]
              /\ CASE r.stop_reason = "end_turn" ->
                        IF r.content = << >>
                        THEN Except(Exception("IndexError", "list index out of range"))
                             /\ response' = r
                             /\ UNCHANGED << tool_uses, tool_results, idx, result >>
                        ELSE IF r.content[1].type # "text"
                        THEN Except(Exception("AttributeError", "no attribute text"))
                             /\ response' = r
                             /\ UNCHANGED << tool_uses, tool_results, idx, result >>
                        ELSE /\ final_response' = Str(r.content[1].text)
                             /\ pc' = "report"
                             /\ response' = r
                             /\ UNCHANGED << raised, tool_uses, tool_results, idx, result >>
                   [] r.stop_reason = "tool_use" ->
                        /\ response' = r
                        /\ tool_uses' = SelectSeq(r.content, LAMBDA b : b.type = "tool_use")
                        /\ tool_results' = << >>
                        /\ idx' = 1
                        /\ pc' = "for"
                        /\ UNCHANGED << final_response, raised, result >>
                   [] OTHER ->
                        /\ pc' = "report"
                        /\ response' = r
                        /\ UNCHANGED << final_response, raised, tool_uses, tool_results,
                                        idx, result >>
    /\ UNCHANGED << process, tools, limits, script, elapsed, conversation_history, outcome,
                    requested, dispatched >>

\* the tool_use block the for loop is at
Current == tool_uses[idx]

\* for tool_use in tool_uses: self._check_tool_limit(tool_name)
CheckTool ==
    /\ pc = "for"
    /\ idx <= Len(tool_uses)
    /\ requested' = DefaultDictIncr(requested, Current.name)
    \* reading the defaultdict inserts the key
    /\ stats' = [stats EXCEPT !.tool_calls = DefaultDictTouch(@, Current.name)]
    /\ LET exc == CheckToolLimit(stats, limits, Current.name)
       IN IF exc # NoException
          THEN Except(exc)
          ELSE pc' = "validate" /\ UNCHANGED << final_response, raised >>
    /\ UNCHANGED << process, tools, limits, script, elapsed, conversation_history, locals, outcome,
                    dispatched, offered >>

\* the loop without the call of _validate_sql
ValidateQuerySkipped ==
    /\ pc = "validate"
    /\ pc' = "execute"
    /\ UNCHANGED << process, tools, limits, script, stats, elapsed, conversation_history,
                    final_response, raised, locals, outcome, history >>

\* if tool_name == "execute_sql_query" and "query" in tool_input: self._validate_sql(...)
ValidateQuery ==
    /\ pc = "validate"
    /\ LET exc == IF Current.name = "execute_sql_query" /\ "query" \in Current.input.keys
                  THEN ValidateSql(Current.input.query, limits)
                  ELSE NoException
       IN IF exc # NoException
          THEN Except(exc)
          ELSE pc' = "execute" /\ UNCHANGED << final_response, raised >>
    /\ UNCHANGED << process, tools, limits, script, stats, elapsed, conversation_history, locals,
                    outcome, history >>

\* result = self.tools.execute_tool(tool_name, tool_input)
Execute ==
    /\ pc = "execute"
    /\ dispatched' = DefaultDictIncr(dispatched, Current.name)
    /\ \E o \in ExecuteTool(Current.name, Current.input) :
         /\ IF o.raises # NoException
            THEN Except(o.raises) /\ UNCHANGED result
            ELSE /\ result' = o.value
                 /\ pc' = "record"
                 /\ UNCHANGED << final_response, raised >>
         /\ IF CacheMiss(Current.name, Current.input)
            THEN LET key == CacheKey(Current.name, Current.input.etl_name)
                 IN /\ storage_reads' = DefaultDictIncr(storage_reads, key)
                    \* self._cache[cache_key] = result, when the read did not fail
                    /\ cache' = IF o.raises = NoException /\ o.value.success
                                THEN [k \in DOMAIN cache \cup {key} |->
                                        IF k = key THEN o.value.result ELSE cache[k]]
                                ELSE cache
            ELSE UNCHANGED tools
    /\ UNCHANGED << process, limits, script, stats, elapsed, conversation_history, response,
                    tool_uses, tool_results, idx, outcome, requested, offered >>

\* the record step without the counter increment
RecordWithoutCount ==
    /\ pc = "record"
    /\ tool_results' = Append(tool_results,
                              [type |-> "tool_result",
                               tool_use_id |-> tool_uses[idx].id,
                               content |-> JsonDumps(result)])
    /\ idx' = idx + 1
    /\ pc' = "for"
    /\ UNCHANGED << process, tools, limits, script, stats, elapsed, conversation_history, final_response,
                    response, tool_uses, result, raised, outcome, history >>

\* the record step counting only the invocations that succeeded
RecordCountsSuccess ==
    /\ pc = "record"
    /\ stats' = IF result.success
                THEN [stats EXCEPT !.tool_calls = DefaultDictIncr(@, tool_uses[idx].name)]
                ELSE stats
    /\ tool_results' = Append(tool_results,
                              [type |-> "tool_result",
                               tool_use_id |-> tool_uses[idx].id,
                               content |-> JsonDumps(result)])
    /\ idx' = idx + 1
    /\ pc' = "for"
    /\ UNCHANGED << process, tools, limits, script, elapsed, conversation_history, final_response,
                    response, tool_uses, result, raised, outcome, history >>

\* self.stats.tool_calls[tool_name] += 1; tool_results.append({...})
Record ==
    /\ pc = "record"
    /\ stats' = [stats EXCEPT !.tool_calls = DefaultDictIncr(@, Current.name)]
    /\ tool_results' = Append(tool_results,
                              [type |-> "tool_result",
                               tool_use_id |-> Current.id,
                               content |-> JsonDumps(result)])
    /\ idx' = idx + 1
    /\ pc' = "for"
    /\ UNCHANGED << process, tools, limits, script, elapsed, conversation_history, final_response,
                    response, tool_uses, result, raised, outcome, history >>

\* the two turns appended in the other order
AppendTurnsUserFirst ==
    /\ pc = "for"
    /\ idx > Len(tool_uses)
    /\ conversation_history' =
          conversation_history \o
          << [role |-> "user", content |-> tool_results],
             [role |-> "assistant", content |-> response.content] >>
    /\ pc' = "loop"
    /\ UNCHANGED << process, tools, limits, script, stats, elapsed, final_response, locals, raised,
                    outcome, history >>

\* after the for loop: the assistant turn and the user turn are appended
AppendTurns ==
    /\ pc = "for"
    /\ idx > Len(tool_uses)
    /\ conversation_history' =
          conversation_history \o
          << [role |-> "assistant", content |-> response.content],
             [role |-> "user", content |-> tool_results] >>
    /\ pc' = "loop"
    /\ UNCHANGED << process, tools, limits, script, stats, elapsed, final_response, locals, raised,
                    outcome, history >>

\* the dict run() returns
Outcome(fr, st, el, conv) ==
    [success |-> fr # None,
     response |-> fr,
     stats |-> [iterations |-> st.iterations,
                claude_calls |-> st.claude_calls,
                total_cost |-> st.total_cost,
                elapsed_time |-> el,
                tool_calls |-> st.tool_calls],
     conversation_history |-> conv]

\* the final report and the return statement; the locals of run() are gone
Return ==
    /\ pc = "report"
    /\ outcome' = Outcome(final_response, stats, elapsed, conversation_history)
    /\ pc' = "returned"
    /\ response' = NoResponse
    /\ tool_uses' = << >>
    /\ tool_results' = << >>
    /\ idx' = 0
    /\ result' = NoResult
    /\ UNCHANGED << process, tools, limits, script, stats, elapsed, conversation_history,
                    final_response, raised, history >>

\* time passes while the orchestrator exists and run() has not ended
Tick ==
    /\ pc \notin { "returned", "escaped" }
    /\ elapsed < MaxClock
    /\ elapsed' = elapsed + 1
    /\ UNCHANGED << process, tools, limits, script, stats, conversation_history, final_response, pc,
                    locals, raised, outcome, history >>

\* Ctrl+C while run() is inside its try block
Interrupt ==
    /\ pc \in { "loop", "call", "for", "validate", "execute", "record" }
    /\ Except(KeyboardInterrupt)
    /\ UNCHANGED << process, tools, limits, script, stats, elapsed, conversation_history, locals,
                    outcome, history >>

\* the steps of run()
Step ==
    \/ RunStart
    \/ Iterate
    \/ CallModelRaises
    \/ CallModelReturns
    \/ CheckTool
    \/ ValidateQuery
    \/ Execute
    \/ Record
    \/ AppendTurns
    \/ Return

Next == Step \/ Tick

\* a run on a fresh orchestrator, not interrupted
Spec == Init /\ [][Next]_vars

\* Ctrl+C after the assistant turn was appended, before the user turn is
InterruptBetweenAppends ==
    /\ pc = "for"
    /\ idx > Len(tool_uses)
    /\ conversation_history' =
          Append(conversation_history, [role |-> "assistant", content |-> response.content])
    /\ Except(KeyboardInterrupt)
    /\ UNCHANGED << process, tools, limits, script, stats, elapsed, locals, outcome, history >>

NextInterrupt == Next \/ Interrupt \/ InterruptBetweenAppends

\* a run on a fresh orchestrator that the user may interrupt
SpecInterrupt == Init /\ [][NextInterrupt]_vars

\* run(task) called again on the orchestrator after a run has returned: the
\* conversation and final_response are set anew, self.stats is left as it is
RunAgain ==
    /\ pc = "returned"
    /\ stats.iterations <= MaxIter
    /\ conversation_history' = << [role |-> "user", content |-> Str("task")] >>
    /\ final_response' = None
    /\ pc' = "loop"
    /\ raised' = NoException
    /\ outcome' = NoOutcome
    /\ UNCHANGED << process, tools, limits, script, stats, elapsed, locals, history >>

NextReuse == Next \/ RunAgain

\* runs one after the other on the same orchestrator
SpecReuse == Init /\ [][NextReuse]_vars

(***************************************************************************)
(* Single operations, from states drawn from bounded sets.                  *)
(***************************************************************************)
\* AgentLimits() with the iteration limit of the model
DefaultLimits == AgentLimits(MaxIter, 20, 2000000, 120, DefaultToolLimits)

\* the loop is about to validate the query of an execute_sql_query request
InitValidateSql ==
    /\ limits = DefaultLimits
    /\ script \in { << T_SqlLimit, T_SqlLimit, u >> : u \in Usages }
    /\ \E q \in Queries :
          LET b == ToolUseBlock(<< 1, 1 >>, "execute_sql_query",
                                ToolInput({"query", "purpose"}, "", q, ""))
          IN /\ response = [stop_reason |-> "tool_use", content |-> << b >>,
                            usage |-> [input_tokens |-> 1000, output_tokens |-> 1000]]
             /\ tool_uses = << b >>
    /\ stats = [iterations |-> 1, claude_calls |-> 1, total_cost |-> 18000,
                tool_calls |-> [t \in {"execute_sql_query"} |-> 0]]
    /\ elapsed = 0
    /\ conversation_history = << [role |-> "user", content |-> Str("task")] >>
    /\ final_response = None
    /\ pc = "validate"
    /\ tool_results = << >>
    /\ idx = 1
    /\ result = NoResult
    /\ raised = NoException
    /\ outcome = NoOutcome
    /\ requested = [t \in {"execute_sql_query"} |-> 1]
    /\ dispatched = << >>
    /\ offered = IF stats.claude_calls > 0 THEN ToolDefinitionNames ELSE << >>
    /\ InitProcess
    /\ InitTools

NextValidateSql == ValidateQuery

\* _validate_sql applied to each query of Queries
SpecValidateSql == InitValidateSql /\ [][NextValidateSql]_vars

\* the queries handed to the execute_sql_query handler alone: those of Queries,
\* bare, ended by a semicolon, and ended by a space and a semicolon
HandlerQueries ==
    { q \o e : q \in Queries, e \in { << >>, << ";" >>, << " ", ";" >> } }

\* execute_tool is about to be called for an execute_sql_query request; the query
\* has not gone through _validate_sql
InitAutoLimit ==
    /\ limits = DefaultLimits
    /\ script = << T_SqlLimit, T_SqlLimit, [input_tokens |-> 1000, output_tokens |-> 1000] >>
    /\ \E q \in HandlerQueries :
          LET b == ToolUseBlock(<< 1, 1 >>, "execute_sql_query",
                                ToolInput({"query", "purpose"}, "", q, ""))
          IN /\ response = [stop_reason |-> "tool_use", content |-> << b >>,
                            usage |-> [input_tokens |-> 1000, output_tokens |-> 1000]]
             /\ tool_uses = << b >>
    /\ stats = [iterations |-> 1, claude_calls |-> 1, total_cost |-> 18000,
                tool_calls |-> [t \in {"execute_sql_query"} |-> 0]]
    /\ elapsed = 0
    /\ conversation_history = << [role |-> "user", content |-> Str("task")] >>
    /\ final_response = None
    /\ pc = "execute"
    /\ tool_results = << >>
    /\ idx = 1
    /\ result = NoResult
    /\ raised = NoException
    /\ outcome = NoOutcome
    /\ requested = [t \in {"execute_sql_query"} |-> 1]
    /\ dispatched = << >>
    /\ offered = IF stats.claude_calls > 0 THEN ToolDefinitionNames ELSE << >>
    /\ InitProcess
    /\ InitTools

NextAutoLimit == Execute

\* the execute_sql_query handler applied to each query of HandlerQueries
SpecAutoLimit == InitAutoLimit /\ [][NextAutoLimit]_vars

\* the etl_name arguments the readers are tried with
EtlNames == { "etl_vendite", "etl_clienti" }

\* the requests for a caching reader
ReaderRequests ==
    { [name |-> t, input |-> ToolInput({"etl_name"}, e, << >>, "")] :
        t \in CachingReaders, e \in EtlNames }

\* a tool-use turn with two requests for caching readers has just been received
\* by a fresh orchestrator, under the default quotas or the tight ones
InitCache ==
    /\ limits \in { DefaultLimits, AgentLimits(MaxIter, 20, 2000000, 120, TightToolLimits) }
    /\ script = << T_ReadSql, T_ReadSql, [input_tokens |-> 1000, output_tokens |-> 1000] >>
    /\ \E r1, r2 \in ReaderRequests :
          LET b1 == ToolUseBlock(<< 1, 1 >>, r1.name, r1.input)
              b2 == ToolUseBlock(<< 1, 2 >>, r2.name, r2.input)
          IN /\ response = [stop_reason |-> "tool_use", content |-> << b1, b2 >>,
                            usage |-> [input_tokens |-> 1000, output_tokens |-> 1000]]
             /\ tool_uses = << b1, b2 >>
    /\ stats = [iterations |-> 1, claude_calls |-> 1, total_cost |-> 18000,
                tool_calls |-> << >>]
    /\ elapsed = 0
    /\ conversation_history = << [role |-> "user", content |-> Str("task")] >>
    /\ final_response = None
    /\ pc = "for"
    /\ tool_results = << >>
    /\ idx = 1
    /\ result = NoResult
    /\ raised = NoException
    /\ outcome = NoOutcome
    /\ requested = << >>
    /\ dispatched = << >>
    /\ offered = IF stats.claude_calls > 0 THEN ToolDefinitionNames ELSE << >>
    /\ InitProcess
    /\ InitTools

\* the for loop of the turn and the two appends after it
NextCache ==
    \/ CheckTool
    \/ ValidateQuery
    \/ Execute
    \/ Record
    \/ AppendTurns

\* one tool-use turn of two reader requests
SpecCache == InitCache /\ [][NextCache]_vars

\* the policies _check_limits is tried with alone: every threshold low or high
CheckLimitsConfigs ==
    { AgentLimits(mi, mc, cost, secs, DefaultToolLimits) :
        mi \in { 1, MaxIter }, mc \in { 1, 2 }, cost \in { 18000, 36000 },
        secs \in { MaxClock, 120 } }

\* the stats _check_limits is tried with alone
CheckLimitsStats ==
    { [iterations |-> i, claude_calls |-> c, total_cost |-> t, tool_calls |-> << >>] :
        i \in 0..MaxIter, c \in 0..2, t \in { 0, 18000, 36000 } }

\* an orchestrator in any of these states, _check_limits about to be called
InitCheckLimits ==
    /\ limits \in CheckLimitsConfigs
    /\ script = << T_Text, T_Text, [input_tokens |-> 1000, output_tokens |-> 1000] >>
    /\ stats \in CheckLimitsStats
    /\ elapsed \in 0..MaxClock
    /\ conversation_history = << [role |-> "user", content |-> Str("task")] >>
    /\ final_response = None
    /\ pc = "check_limits"
    /\ response = NoResponse
    /\ tool_uses = << >>
    /\ tool_results = << >>
    /\ idx = 0
    /\ result = NoResult
    /\ raised = NoException
    /\ outcome = NoOutcome
    /\ requested = << >>
    /\ dispatched = << >>
    /\ offered = IF stats.claude_calls > 0 THEN ToolDefinitionNames ELSE << >>
    /\ InitProcess
    /\ InitTools

\* one call of self._check_limits(), for the first time or again: what it raises is
\* kept in raised
CheckLimitsCall ==
    /\ pc \in { "check_limits", "checked" }
    /\ raised' = CheckLimits(stats, limits, elapsed)
    /\ pc' = "checked"
    /\ UNCHANGED << process, tools, limits, script, stats, elapsed, conversation_history, final_response,
                    locals, outcome, history >>

NextCheckLimits == CheckLimitsCall \/ Tick

\* _check_limits called any number of times while time passes
SpecCheckLimits == InitCheckLimits /\ [][NextCheckLimits]_vars

\* the tools _check_tool_limit is tried with alone: three with a configured limit,
\* two registered ones without, an unregistered one
CheckToolLimitNames ==
    { "read_sql_code", "execute_sql_query", "execute_python_code",
      "list_available_etls", "validate_sql_syntax", "no_such_tool" }

\* the values the counter of a tool can have when _check_tool_limit is called: up to
\* the limit for a tool with a configured limit; small ones, and the ones next to
\* the default of tool_limits.get, for a tool without
CheckToolLimitCounts(lim, tool_name) ==
    IF tool_name \in DOMAIN lim.tool_limits
    THEN 0..lim.tool_limits[tool_name]
    ELSE 0..MaxCalls \cup { DefaultToolLimit - 1, DefaultToolLimit }

\* the loop is about to check the quota of a requested tool; its counter has one of
\* these values or the tool was never counted
InitCheckToolLimit ==
    /\ limits \in { DefaultLimits, AgentLimits(MaxIter, 20, 2000000, 120, TightToolLimits) }
    /\ script = << T_Text, T_Text, [input_tokens |-> 1000, output_tokens |-> 1000] >>
    /\ \E t \in CheckToolLimitNames :
          LET b == ToolUseBlock(<< 1, 1 >>, t, ToolInput({}, "", << >>, ""))
          IN /\ response = [stop_reason |-> "tool_use", content |-> << b >>,
                            usage |-> [input_tokens |-> 1000, output_tokens |-> 1000]]
             /\ tool_uses = << b >>
             /\ \/ stats = [iterations |-> 1, claude_calls |-> 1, total_cost |-> 18000,
                            tool_calls |-> << >>]
                \/ \E n \in CheckToolLimitCounts(limits, t) :
                      stats = [iterations |-> 1, claude_calls |-> 1, total_cost |-> 18000,
                               tool_calls |-> [x \in {t} |-> n]]
    /\ elapsed = 0
    /\ conversation_history = << [role |-> "user", content |-> Str("task")] >>
    /\ final_response = None
    /\ pc = "for"
    /\ tool_results = << >>
    /\ idx = 1
    /\ result = NoResult
    /\ raised = NoException
    /\ outcome = NoOutcome
    /\ requested = << >>
    /\ dispatched = << >>
    /\ offered = IF stats.claude_calls > 0 THEN ToolDefinitionNames ELSE << >>
    /\ InitProcess
    /\ InitTools

NextCheckToolLimit == CheckTool

\* _check_tool_limit applied to each of these tools and counters
SpecCheckToolLimit == InitCheckToolLimit /\ [][NextCheckToolLimit]_vars

\* the token counts of the usage reports tried for the cost: small ones, and 1000
TokenCounts == 0..MaxTokens \cup { 1000 }

\* a fresh orchestrator whose backend asks for a tool, then answers, and reports
\* the same usage on every call
InitCost ==
    /\ limits = DefaultLimits
    /\ script \in { << T_ReadSql, T_Text, [input_tokens |-> i, output_tokens |-> o] >> :
                       i, o \in TokenCounts }
    /\ stats = AgentStats
    /\ elapsed = 0
    /\ conversation_history = << >>
    /\ final_response = None
    /\ pc = "idle"
    /\ response = NoResponse
    /\ tool_uses = << >>
    /\ tool_results = << >>
    /\ idx = 0
    /\ result = NoResult
    /\ raised = NoException
    /\ outcome = NoOutcome
    /\ requested = << >>
    /\ dispatched = << >>
    /\ offered = IF stats.claude_calls > 0 THEN ToolDefinitionNames ELSE << >>
    /\ InitProcess
    /\ InitTools

\* a run whose model calls all report one well-formed usage
SpecCost == InitCost /\ [][Next]_vars

(***************************************************************************)
(* _execute_python_code in the threads of one process (concurrent requests  *)
(* to /analyze, each with its own orchestrator and its own AgentTools).     *)
(***************************************************************************)
\* a piece of text written to a stream: who wrote it, and whether it was the
\* submitted code or the handler's own progress message
Written(i, what) == [by |-> i, what |-> what]

\* the threads after print() in thread i wrote to the stream sys.stdout is now;
\* what goes to the console is not kept
Write(thr, stream, item) ==
    IF stream = Console THEN thr
    ELSE [thr EXCEPT ![stream.of].buffer = Append(@, item)]

\* the variables of the orchestrator
orchestrator ==
    << limits, script, stats, elapsed, conversation_history, final_response, pc, locals,
       raised, outcome, history, tools >>

\* every request is about to run the execute_python_code tool
InitConcurrent ==
    /\ limits = DefaultLimits
    /\ script = << T_Python, T_Python, [input_tokens |-> 1000, output_tokens |-> 1000] >>
    /\ stats = AgentStats
    /\ elapsed = 0
    /\ conversation_history = << >>
    /\ final_response = None
    /\ pc = "idle"
    /\ response = NoResponse
    /\ tool_uses = << >>
    /\ tool_results = << >>
    /\ idx = 0
    /\ result = NoResult
    /\ raised = NoException
    /\ outcome = NoOutcome
    /\ requested = << >>
    /\ dispatched = << >>
    /\ offered = IF stats.claude_calls > 0 THEN ToolDefinitionNames ELSE << >>
    /\ sys_stdout = Console
    /\ threads = [i \in 1..NumThreads |->
                    [pc |-> "announce", old_stdout |-> Console, buffer |-> << >>,
                     output |-> << >>]]
    /\ InitTools

\* print(f"Esecuzione codice Python: {purpose}")
PyAnnounce(i) ==
    /\ threads[i].pc = "announce"
    /\ threads' = [Write(threads, sys_stdout, Written(i, "handler")) EXCEPT ![i].pc = "save"]
    /\ UNCHANGED << sys_stdout, orchestrator >>

\* old_stdout = sys.stdout
PySave(i) ==
    /\ threads[i].pc = "save"
    /\ threads' = [threads EXCEPT ![i].old_stdout = sys_stdout, ![i].pc = "swap"]
    /\ UNCHANGED << sys_stdout, orchestrator >>

\* sys.stdout = captured_output = StringIO()
PySwap(i) ==
    /\ threads[i].pc = "swap"
    /\ sys_stdout' = StringIO(i)
    /\ threads' = [threads EXCEPT ![i].buffer = << >>, ![i].pc = "exec"]
    /\ UNCHANGED orchestrator

\* exec(code, ...): the code prints once, then ends or raises an Exception
PyExec(i) ==
    /\ threads[i].pc = "exec"
    /\ \E next \in { "restore", "restore_except" } :
          threads' = [Write(threads, sys_stdout, Written(i, "code")) EXCEPT ![i].pc = next]
    /\ UNCHANGED << sys_stdout, orchestrator >>

\* sys.stdout = old_stdout, after exec or in the except clause
PyRestore(i) ==
    /\ threads[i].pc \in { "restore", "restore_except" }
    /\ sys_stdout' = threads[i].old_stdout
    /\ threads' = [threads EXCEPT ![i].pc = IF @ = "restore" THEN "getvalue" ELSE "report"]
    /\ UNCHANGED orchestrator

\* output = captured_output.getvalue()
PyGetValue(i) ==
    /\ threads[i].pc = "getvalue"
    /\ threads' = [threads EXCEPT ![i].output = threads[i].buffer, ![i].pc = "report"]
    /\ UNCHANGED << sys_stdout, orchestrator >>

\* print("Codice eseguito con successo") or print("Errore nell'esecuzione"); return
PyReport(i) ==
    /\ threads[i].pc = "report"
    /\ threads' = [Write(threads, sys_stdout, Written(i, "handler")) EXCEPT ![i].pc = "done"]
    /\ UNCHANGED << sys_stdout, orchestrator >>

\* one step of _execute_python_code in thread i
PyStep(i) ==
    \/ PyAnnounce(i)
    \/ PySave(i)
    \/ PySwap(i)
    \/ PyExec(i)
    \/ PyRestore(i)
    \/ PyGetValue(i)
    \/ PyReport(i)

NextConcurrent == \E i \in 1..NumThreads : PyStep(i)

\* NumThreads threads run _execute_python_code, their steps interleaved
SpecConcurrent == InitConcurrent /\ [][NextConcurrent]_vars

(***************************************************************************)
(* Properties.                                                              *)
(***************************************************************************)
OutcomeKeys == { "success", "response", "stats", "conversation_history" }
StatsKeys == { "iterations", "claude_calls", "total_cost", "elapsed_time", "tool_calls" }
CaughtTypes == { "LimitExceededError", "Exception", "KeyboardInterrupt" }
UnknownToolError == [success |-> FALSE, error |-> "Tool non trovato"]

\* C1: a run ended by a LimitExceededError returns success = false and a non-empty
\* explanatory text
C1_LimitAbortIsNotSuccess ==
    (pc = "returned" /\ raised.type = "LimitExceededError") =>
        /\ outcome.success = FALSE
        /\ outcome.response # None
        /\ outcome.response.value # ""

\* C2: however the loop ends, run() returns the same outcome shape, and no
\* LimitExceededError, Exception or KeyboardInterrupt raised in the loop leaves run()
C2_RunReturnsSameShape ==
    /\ raised.type \in CaughtTypes => pc \in { "report", "returned" }
    /\ pc = "escaped" => raised.type \notin CaughtTypes
    /\ pc = "report" => ENABLED Return
    /\ pc = "returned" =>
          /\ DOMAIN outcome = OutcomeKeys
          /\ DOMAIN outcome.stats = StatsKeys
          /\ outcome.success \in BOOLEAN
          /\ outcome.conversation_history = conversation_history
          /\ outcome.stats.tool_calls = stats.tool_calls

\* a run that a keyboard interrupt ended after a completed tool turn has returned
C2_Witness ==
    /\ pc = "returned"
    /\ raised = KeyboardInterrupt
    /\ Len(conversation_history) > 1
    /\ DOMAIN outcome = OutcomeKeys

\* C3: every terminated run returns a non-null text in the response field
C3_ResponseIsNeverNull == pc = "returned" => outcome.response # None

\* C4: for every tool with a configured limit the counter never exceeds the limit, and
\* execute_tool is never entered for a tool whose counter has reached its limit
C4_ToolCallsWithinLimit ==
    /\ \A t \in DOMAIN limits.tool_limits :
          /\ DefaultDictGet(stats.tool_calls, t) <= limits.tool_limits[t]
          /\ DefaultDictGet(dispatched, t) <= limits.tool_limits[t]
    /\ (pc = "execute" /\ Current.name \in DOMAIN limits.tool_limits) =>
          DefaultDictGet(stats.tool_calls, Current.name) < limits.tool_limits[Current.name]

\* the second request of one turn for a tool of limit 1 is refused, the counter at 1
C4_Witness ==
    /\ pc = "report"
    /\ raised.kind = "tool_quota"
    /\ idx = 2
    /\ tool_uses[1].name = tool_uses[2].name
    /\ limits.tool_limits[tool_uses[2].name] = 1
    /\ stats.tool_calls[tool_uses[2].name] = 1

\* C5: for a tool of configured limit N the run aborts with the quota error exactly at
\* the (N+1)-th request for it, the tool having been executed exactly N times
C5_QuotaAbortAtNPlusOne ==
    \A t \in DOMAIN limits.tool_limits :
        LET N == limits.tool_limits[t]
            r == DefaultDictGet(requested, t)
        IN /\ r <= N + 1
           /\ r = N + 1 =>
                 /\ pc \in { "report", "returned" }
                 /\ raised.kind = "tool_quota"
                 /\ DefaultDictGet(stats.tool_calls, t) = N
                 /\ DefaultDictGet(dispatched, t) = N
           /\ (pc = "report" /\ raised.kind = "tool_quota" /\ tool_uses[idx].name = t) =>
                 r = N + 1

\* the third request for a tool of limit 2 is refused in the second turn
C5_Witness ==
    /\ pc = "report"
    /\ raised.kind = "tool_quota"
    /\ Len(conversation_history) = 3
    /\ limits.tool_limits[tool_uses[idx].name] = 2
    /\ requested[tool_uses[idx].name] = 3
    /\ dispatched[tool_uses[idx].name] = 2

\* C6: with max_iterations = 0 the run ends at once by the iteration limit: no model
\* call, no cost, no tool executed
C6_ZeroIterationsNoModelCall ==
    limits.max_iterations = 0 =>
        /\ stats.claude_calls = 0
        /\ stats.total_cost = 0
        /\ DOMAIN dispatched = {}
        /\ pc \in { "idle", "loop", "report", "returned" }
        /\ pc \in { "report", "returned" } => raised.kind = "iterations"

C6_Witness ==
    /\ limits.max_iterations = 0
    /\ pc = "returned"
    /\ raised.kind = "iterations"
    /\ outcome.stats.claude_calls = 0

\* the most iterations a run can count: max_iterations, and 1 when that is 0
IterationBudget == IF limits.max_iterations > 1 THEN limits.max_iterations ELSE 1

\* the steps one iteration can take: the model call, four per tool request, the append
IterationWidth == 4 * MaxToolsPerTurn + 4

\* the steps left in the current tool turn
TurnRank == 4 * (Len(tool_uses) + 1 - idx) + 1

\* a measure of how far the run is from its end
Rank ==
    CASE pc \in { "returned", "escaped" } -> 0
      [] pc = "report" -> 1
      [] pc = "idle" -> 2 + (IterationBudget + 1) * IterationWidth
      [] pc = "loop" -> 2 + (IterationBudget - stats.iterations) * IterationWidth - 1
      [] OTHER ->
           2 + (IterationBudget - stats.iterations) * IterationWidth
             + ( CASE pc = "call" -> IterationWidth - 2
                   [] pc = "for" -> TurnRank
                   [] pc = "validate" -> TurnRank - 1
                   [] pc = "execute" -> TurnRank - 2
                   [] pc = "record" -> TurnRank - 3 )

\* C7: every run ends, whatever the model answers: every step of run() lowers a
\* measure that is never negative and is 0 only when the run has ended; with
\* max_iterations >= 1 the iteration counter never exceeds max_iterations
C7_RunTerminates ==
    /\ [](Rank >= 0)
    /\ [](Rank = 0 <=> pc \in { "returned", "escaped" })
    /\ [][pc' # pc => Rank' < Rank]_vars
    /\ [](limits.max_iterations >= 1 => stats.iterations <= limits.max_iterations)

\* a run that used every iteration it was allowed and was stopped by the limit
C7_Witness ==
    /\ pc = "returned"
    /\ raised.kind = "iterations"
    /\ limits.max_iterations = MaxIter
    /\ stats.iterations = MaxIter
    /\ stats.claude_calls = MaxIter - 1

\* the tool_use blocks of unregistered tools in turn p of the conversation are
\* answered in turn p + 1 by the dispatcher's error, under the same id
UnknownAnswered(p) ==
    \A k \in 1..Len(conversation_history[p].content) :
        LET b == conversation_history[p].content[k]
        IN (b.type = "tool_use" /\ b.name \notin ToolMethods) =>
              \E j \in 1..Len(conversation_history[p + 1].content) :
                  conversation_history[p + 1].content[j] =
                      [type |-> "tool_result", tool_use_id |-> b.id,
                       content |-> JsonDumps(UnknownToolError)]

\* C8: a request for an unregistered tool gets {success: false, error} from
\* execute_tool, nothing is raised, the error is recorded as the result of that
\* invocation and appended to the conversation, and the loop goes on
C8_UnknownToolDoesNotAbort ==
    /\ [][ (pc = "execute" /\ Current.name \notin ToolMethods /\ pc' # pc) =>
              (pc' = "record" /\ result' = UnknownToolError /\ raised' = NoException) ]_vars
    /\ [][ (pc = "record" /\ Current.name \notin ToolMethods /\ pc' # pc) =>
              /\ pc' = "for"
              /\ tool_results' =
                    Append(tool_results,
                           [type |-> "tool_result", tool_use_id |-> Current.id,
                            content |-> JsonDumps(UnknownToolError)]) ]_vars
    /\ [][ (pc = "for" /\ idx > Len(tool_uses) /\ pc' # pc) => pc' = "loop" ]_vars
    /\ [](\A p \in 1..Len(conversation_history) :
             conversation_history[p].role = "assistant" => UnknownAnswered(p))

\* the model is called again with the error of an unregistered tool in the conversation
C8_Witness ==
    /\ pc = "call"
    /\ Len(conversation_history) = 3
    /\ Len(conversation_history[3].content) > 0
    /\ conversation_history[3].content[1].content = JsonDumps(UnknownToolError)

\* C9: execute_tool never raises: whatever the tool and its arguments, the step that
\* calls it goes on to record a result
C9_ExecuteToolNeverRaises ==
    [][ (pc = "execute" /\ pc' # pc) => (pc' = "record" /\ raised' = NoException) ]_vars

\* C10: total_cost, iterations, claude_calls and every tool counter never decrease
C10_StatsNeverDecrease ==
    [][ /\ stats'.total_cost >= stats.total_cost
        /\ stats'.iterations >= stats.iterations
        /\ stats'.claude_calls >= stats.claude_calls
        /\ \A t \in DOMAIN stats.tool_calls :
              t \in DOMAIN stats'.tool_calls /\ stats'.tool_calls[t] >= stats.tool_calls[t]
      ]_vars

\* the upper-case word w occurs in q at offset k, in any letter case
OccursAt(q, w, k) == \A j \in 1..Len(w) : UpperChar(q[k + j]) = w[j]

\* q contains the upper-case word w in any letter case
Mentions(q, w) == \E k \in 0..(Len(q) - Len(w)) : OccursAt(q, w, k)

\* q contains one of the blocked keywords in any letter case
MentionsBlocked(q) ==
    \E n \in 1..Len(DefaultSqlBlockKeywords) : Mentions(q, DefaultSqlBlockKeywords[n])

\* the query the loop validated
ValidatedQuery == tool_uses[idx].input.query

\* C11: with sql_require_limit = true, a query that contains a blocked keyword (in
\* any letter case) is rejected for the blocked keyword, with or without LIMIT; one
\* that contains none and no LIMIT is rejected for the missing LIMIT; one that
\* contains none and a LIMIT passes
C11_ValidateSqlThreeWay ==
    pc \in { "execute", "report" } =>
        /\ MentionsBlocked(ValidatedQuery) =>
              (pc = "report" /\ raised.kind = "sql_blocked_keyword")
        /\ (~MentionsBlocked(ValidatedQuery) /\ ~Mentions(ValidatedQuery, KW_LIMIT)) =>
              (pc = "report" /\ raised.kind = "sql_missing_limit")
        /\ (~MentionsBlocked(ValidatedQuery) /\ Mentions(ValidatedQuery, KW_LIMIT)) =>
              (pc = "execute" /\ raised = NoException)

\* a lower-case delete with a mixed-case LIMIT was rejected for the keyword
C11_Witness ==
    /\ pc = "report"
    /\ raised.kind = "sql_blocked_keyword"
    /\ ValidatedQuery = Join(<< W_delete, W_vendite, W_LiMiT >>)

\* a character of an SQL identifier
IsWordChar(c) ==
    \/ \E k \in 1..Len(UpperLetters) : UpperChar(c) = UpperLetters[k]
    \/ c \in { "0","1","2","3","4","5","6","7","8","9","_" }

\* q contains the upper-case word w as a token: an occurrence in any letter case
\* that no identifier character precedes or follows
MentionsToken(q, w) ==
    \E k \in 0..(Len(q) - Len(w)) :
        /\ OccursAt(q, w, k)
        /\ k > 0 => ~IsWordChar(q[k])
        /\ k + Len(w) < Len(q) => ~IsWordChar(q[k + Len(w) + 1])

\* C12: a query is rejected for a blocked keyword exactly when it contains a blocked
\* keyword as a token; a keyword inside a longer identifier does not count
C12_BlockedKeywordIsToken ==
    pc \in { "execute", "report" } =>
        ( (pc = "report" /\ raised.kind = "sql_blocked_keyword")
          <=> \E n \in 1..Len(DefaultSqlBlockKeywords) :
                  MentionsToken(ValidatedQuery, DefaultSqlBlockKeywords[n]) )

\* the kinds of global limit, in the order _check_limits is said to test them
LimitKinds == << "iterations", "model_calls", "cost", "timeout" >>

\* the global limits that are violated: the counter has reached its threshold
Violated(st, lim, el) ==
    { n \in 1..Len(LimitKinds) :
        \/ n = 1 /\ st.iterations >= lim.max_iterations
        \/ n = 2 /\ st.claude_calls >= lim.max_claude_calls
        \/ n = 3 /\ st.total_cost >= lim.max_total_cost
        \/ n = 4 /\ el >= lim.max_time_seconds }

\* C13: _check_limits returns normally when no global limit is violated, and
\* otherwise raises for the violated limit that comes first in the order iterations,
\* model calls, cost, timeout
C13_FirstViolatedLimitInOrder ==
    [][ (pc' = "checked" /\ elapsed' = elapsed) =>
          LET v == Violated(stats, limits, elapsed)
          IN IF v = {}
             THEN raised' = NoException
             ELSE /\ raised'.type = "LimitExceededError"
                  /\ \E n \in v : /\ raised'.kind = LimitKinds[n]
                                   /\ \A m \in v : n <= m ]_vars

\* model calls, cost and time are all over their thresholds, the iterations are not:
\* the model calls are reported
C13_Witness ==
    /\ pc = "checked"
    /\ Violated(stats, limits, elapsed) = { 2, 3, 4 }
    /\ raised.kind = "model_calls"

\* C20: calling _check_limits again on unchanged stats and limits gives the verdict
\* of the call before, and no call modifies the stats
C20_CheckLimitsSameVerdict ==
    [][ (pc = "checked" /\ pc' = "checked" /\ elapsed' = elapsed) =>
          (raised' = raised /\ stats' = stats /\ limits' = limits) ]_vars

\* the tool whose quota the loop checked
CheckedTool == tool_uses[idx].name

\* C14: _check_tool_limit fails exactly when the tool has a configured limit and its
\* counter has reached it; for a tool without a configured limit it never fails,
\* however often the tool was called
C14_ToolLimitFailsExactlyAtLimit ==
    pc \in { "validate", "report" } =>
        ( (pc = "report" /\ raised.kind = "tool_quota")
          <=> /\ CheckedTool \in DOMAIN limits.tool_limits
              /\ DefaultDictGet(stats.tool_calls, CheckedTool)
                    >= limits.tool_limits[CheckedTool] )

\* C15: a keyboard interrupt inside the loop never leaves run(); run() returns the
\* stats and the conversation as they were at the interrupt, and the outcome is not
\* a success
C15_InterruptReturnsAborted ==
    /\ raised = KeyboardInterrupt => pc \in { "report", "returned" }
    /\ (pc = "returned" /\ raised = KeyboardInterrupt) =>
          /\ outcome.conversation_history = conversation_history
          /\ outcome.stats.iterations = stats.iterations
          /\ outcome.stats.claude_calls = stats.claude_calls
          /\ outcome.stats.total_cost = stats.total_cost
          /\ outcome.stats.tool_calls = stats.tool_calls
          /\ outcome.success = FALSE

\* C16: every run, the first and any later one on the same orchestrator, starts
\* with fresh stats, its clock at zero, and the task as the only turn of the
\* conversation
C16_EveryRunStartsFresh ==
    [][ (pc \in { "idle", "returned" } /\ pc' = "loop") =>
          /\ stats' = AgentStats
          /\ elapsed' = 0
          /\ conversation_history' = << [role |-> "user", content |-> Str("task")] >>
      ]_vars

\* C17: whatever the interleaving, the output a thread captured holds only what its
\* own code printed, and once every thread has left _execute_python_code
\* sys.stdout is the stream it was before
C17_ConcurrentRunsAreIsolated ==
    /\ \A i \in DOMAIN threads :
          \A k \in 1..Len(threads[i].output) :
              threads[i].output[k] = Written(i, "code")
    /\ (threads # << >> /\ \A i \in DOMAIN threads : threads[i].pc = "done") =>
          sys_stdout = Console

\* C18: the estimate of a call is (input_tokens / 1000) * 0.003 + (output_tokens /
\* 1000) * 0.015 dollars, 0.018 for 1000 and 1000 tokens, and total_cost is the sum
\* of the unrounded estimates of the model calls that returned (here all alike);
\* in micro-dollars the rates per 1000 tokens are 3000 and 15000
C18_CostIsSumOfEstimates ==
    /\ [](1000 * stats.total_cost =
            stats.claude_calls * (script[3].input_tokens * 3000
                                  + script[3].output_tokens * 15000))
    /\ []((script[3] = [input_tokens |-> 1000, output_tokens |-> 1000]
           /\ stats.claude_calls = 1) => stats.total_cost = 18000)
    /\ [][ stats'.claude_calls # stats.claude_calls =>
              /\ stats'.claude_calls = stats.claude_calls + 1
              /\ pc = "call" ]_vars

\* two calls of one input token and two output tokens each were accumulated
C18_Witness ==
    /\ script[3] = [input_tokens |-> 1, output_tokens |-> 2]
    /\ stats.claude_calls = 2
    /\ stats.total_cost = 66

\* a usage report with a field missing or negative
Malformed(usage) ==
    \/ DOMAIN usage # { "input_tokens", "output_tokens" }
    \/ \E f \in DOMAIN usage : usage[f] < 0

\* C19: a model call that reports a malformed usage adds 0 to total_cost, and the
\* estimator does not fail the run over it
C19_MalformedUsageCostsNothing ==
    [][ (pc = "call" /\ stats'.claude_calls = stats.claude_calls + 1
         /\ Malformed(script[3])) =>
          /\ stats'.total_cost = stats.total_cost
          /\ raised'.message # "no attribute output_tokens" ]_vars

\* C21: the sum of the tool counters is at most the number of iterations times the
\* most tool requests the model places in one turn
C21_ToolCallsBoundedByIterations ==
    SumValues(stats.tool_calls) <= stats.iterations * MaxToolsPerTurn

\* two full tool turns: the sum has reached the bound
C21_Witness ==
    /\ stats.iterations = 2
    /\ pc = "loop"
    /\ SumValues(stats.tool_calls) = 2 * MaxToolsPerTurn

\* the usage report has both fields
WellFormedShape(usage) == DOMAIN usage = { "input_tokens", "output_tokens" }

\* C22: when the model answers with the stop signal end_turn the run ends at once:
\* the response is the text of the first content block, the outcome is a success,
\* and no tool is executed and no model call made after it
C22_FinalAnswerEndsRun ==
    /\ [][ (pc = "call" /\ response'.stop_reason = "end_turn"
            /\ WellFormedShape(script[3])) =>
              /\ pc' = "report"
              /\ Len(response'.content) >= 1
              /\ response'.content[1].type = "text"
              /\ final_response' = Str(response'.content[1].text)
              /\ raised' = NoException
              /\ dispatched' = dispatched ]_vars
    /\ [][ (pc = "report" /\ pc' # pc /\ response.stop_reason = "end_turn"
            /\ WellFormedShape(script[3])) =>
              /\ pc' = "returned"
              /\ outcome'.success = TRUE
              /\ outcome'.response = final_response
              /\ stats' = stats
              /\ dispatched' = dispatched ]_vars
    /\ [][ pc = "returned" => (stats' = stats /\ dispatched' = dispatched) ]_vars

\* the request the for loop is at asks for execute_sql_query with a query that
\* contains a blocked keyword or no LIMIT
CurrentQueryRejected ==
    /\ tool_uses[idx].name = "execute_sql_query"
    /\ "query" \in tool_uses[idx].input.keys
    /\ \/ MentionsBlocked(tool_uses[idx].input.query)
       \/ ~Mentions(tool_uses[idx].input.query, KW_LIMIT)

\* C23: the requests of a tool turn are handled one at a time in the order asked;
\* each goes through the quota check, then (execute_sql_query with a query only)
\* the SQL validation, then execute_tool, then the counter increment; a failed
\* check ends the run before that request is dispatched, and nothing is
\* dispatched after it
C23_ToolTurnSequence ==
    /\ [][ (pc = "for" /\ idx <= Len(tool_uses) /\ pc' # pc) =>
              /\ idx' = idx /\ tool_uses' = tool_uses /\ dispatched' = dispatched
              /\ IF DefaultDictGet(stats.tool_calls, tool_uses[idx].name)
                      >= ToolLimit(limits, tool_uses[idx].name)
                 THEN pc' = "report" /\ raised'.kind = "tool_quota"
                 ELSE pc' = "validate" ]_vars
    /\ [][ (pc = "validate" /\ pc' # pc) =>
              /\ idx' = idx /\ tool_uses' = tool_uses /\ dispatched' = dispatched
              /\ stats' = stats
              /\ IF CurrentQueryRejected
                 THEN pc' = "report" /\ raised'.type = "LimitExceededError"
                 ELSE pc' = "execute" ]_vars
    /\ [][ (pc = "execute" /\ pc' # pc) =>
              /\ idx' = idx /\ tool_uses' = tool_uses /\ stats' = stats
              /\ dispatched' = DefaultDictIncr(dispatched, tool_uses[idx].name) ]_vars
    /\ [][ (pc = "record" /\ pc' # pc) =>
              /\ pc' = "for" /\ idx' = idx + 1 /\ tool_uses' = tool_uses
              /\ dispatched' = dispatched
              /\ stats'.tool_calls
                   = DefaultDictIncr(stats.tool_calls, tool_uses[idx].name) ]_vars
    /\ [][ (pc = "report" \/ pc = "returned") =>
              (dispatched' = dispatched /\ stats'.tool_calls = stats.tool_calls) ]_vars
    /\ [](pc \in { "for", "validate", "execute", "record" } =>
             /\ Len(tool_results) = idx - 1
             /\ \A k \in 1..(idx - 1) : tool_results[k].tool_use_id = tool_uses[k].id)

\* the first request of a turn was executed and recorded, the second was refused
\* by the SQL validation before any dispatch
C23_Witness ==
    /\ pc = "report"
    /\ raised.kind = "sql_missing_limit"
    /\ idx = 2
    /\ Len(tool_results) = 1
    /\ SumValues(dispatched) = 1
    /\ SumValues(stats.tool_calls) = 1

\* the tool_use blocks of a content, in the order of the content
ToolUseBlocks(content) == SelectSeq(content, LAMBDA b : b.type = "tool_use")

\* the user turn carries one tool_result for each request, in the order asked
ResultsMatch(turn, requests) ==
    /\ turn.role = "user"
    /\ Len(turn.content) = Len(requests)
    /\ \A i \in 1..Len(requests) :
         /\ turn.content[i].type = "tool_result"
         /\ turn.content[i].tool_use_id = requests[i].id

\* C24: a tool-use turn in which every check passed appends exactly two turns,
\* the assistant turn with the model's content and the user turn with the
\* tool_results in the order of the tool_use blocks (i-th tool_use_id = i-th
\* request id); within a run the earlier turns are never changed or removed
C24_TwoTurnsAppended ==
    /\ [][ (pc = "for" /\ idx > Len(tool_uses) /\ pc' # pc) =>
              /\ pc' = "loop"
              /\ Len(conversation_history') = Len(conversation_history) + 2 ]_vars
    /\ [][ (conversation_history' # conversation_history /\ pc # "idle") =>
              LET n == Len(conversation_history)
              IN /\ pc = "for" /\ response.stop_reason = "tool_use"
                 /\ Len(conversation_history') = n + 2
                 /\ SubSeq(conversation_history', 1, n) = conversation_history
                 /\ conversation_history'[n + 1]
                      = [role |-> "assistant", content |-> response.content]
                 /\ ResultsMatch(conversation_history'[n + 2],
                                 ToolUseBlocks(response.content)) ]_vars

\* a turn with two requests has been answered
C24_Witness ==
    /\ Len(conversation_history) = 3
    /\ conversation_history[2].role = "assistant"
    /\ Len(ToolUseBlocks(conversation_history[2].content)) = 2
    /\ Len(conversation_history[3].content) = 2
    /\ conversation_history[3].content[2].tool_use_id
         = conversation_history[2].content[2].id

\* C25: with sql_require_limit true, the loop never hands execute_sql_query a query
\* that lacks LIMIT or contains a blocked keyword, so the query the handler
\* executes for the loop is the query it was given: " LIMIT 1000" is never appended
C25_LoopRejectionPrecedesAutoFix ==
    /\ [](( /\ pc = "execute"
            /\ limits.sql_require_limit
            /\ tool_uses[idx].name = "execute_sql_query"
            /\ "query" \in tool_uses[idx].input.keys ) =>
              /\ Mentions(tool_uses[idx].input.query, KW_LIMIT)
              /\ ~MentionsBlocked(tool_uses[idx].input.query))
    /\ [][ ( /\ pc = "execute" /\ pc' # pc
             /\ limits.sql_require_limit
             /\ tool_uses[idx].name = "execute_sql_query"
             /\ "query" \in tool_uses[idx].input.keys ) =>
               /\ pc' = "record"
               /\ result'.success
               /\ result'.result.query = tool_uses[idx].input.query ]_vars

\* the loop has had a query with LIMIT executed
C25_Witness ==
    /\ pc = "record"
    /\ limits.sql_require_limit
    /\ tool_uses[idx].name = "execute_sql_query"
    /\ result.success
    /\ result.result.query = Q_SelectLimit
    /\ DefaultDictGet(dispatched, "execute_sql_query") = 1

\* C26: when the model call raises, the run goes to its report without another
\* model call, the failed call is counted neither in claude_calls nor in
\* total_cost, the conversation stays as it was before the call, and the outcome
\* is not a success
C26_ModelCallFailureEndsRun ==
    /\ [][ (pc = "call" /\ raised'.kind = "APIError") =>
              /\ pc' = "report"
              /\ stats' = stats
              /\ conversation_history' = conversation_history ]_vars
    /\ [][ raised.kind = "APIError" =>
              /\ raised' = raised
              /\ stats' = stats
              /\ conversation_history' = conversation_history
              /\ dispatched' = dispatched ]_vars
    /\ []((pc = "returned" /\ raised.kind = "APIError") =>
             /\ outcome.success = FALSE
             /\ outcome.stats.claude_calls = outcome.stats.iterations - 1)

\* a stop reason that is neither the final answer nor a tool request
UnexpectedSignal(r) == r.stop_reason \notin { "end_turn", "tool_use", "none" }

\* C27: when the loop reads a stop signal that is neither end_turn nor tool_use, the
\* run goes straight to its report: no tool is executed, nothing is appended to
\* the conversation, no further model call is made, the call is counted in
\* claude_calls and total_cost, and the outcome has success = false
C27_UnexpectedSignalAborts ==
    /\ [][ ( /\ pc = "call" /\ pc' # pc
             /\ UnexpectedSignal(response') ) =>
               /\ pc' = "report"
               /\ final_response' = final_response
               /\ raised' = NoException
               /\ stats'.claude_calls = stats.claude_calls + 1
               /\ stats'.total_cost = stats.total_cost + EstimateCost(response'.usage)
               /\ stats'.tool_calls = stats.tool_calls
               /\ conversation_history' = conversation_history
               /\ dispatched' = dispatched ]_vars
    /\ [][ ( /\ pc = "report" /\ pc' # pc
             /\ UnexpectedSignal(response) ) =>
               /\ pc' = "returned"
               /\ outcome'.success = FALSE
               /\ outcome'.stats.claude_calls = stats.claude_calls
               /\ outcome'.stats.total_cost = stats.total_cost
               /\ outcome'.conversation_history = conversation_history
               /\ stats' = stats
               /\ conversation_history' = conversation_history
               /\ dispatched' = dispatched ]_vars
    /\ [][ pc = "returned" =>
              /\ stats'.claude_calls = stats.claude_calls
              /\ conversation_history' = conversation_history
              /\ dispatched' = dispatched ]_vars

\* the limits _check_limits tests
GlobalLimitKinds == { "iterations", "model_calls", "cost", "timeout" }

TimeIsUp == elapsed >= limits.max_time_seconds

\* C28: the global limits, the time limit among them, are tested only at the start
\* of an iteration: with the time up, a model call or a tool execution that has
\* started still completes, and an iteration that starts with the time up ends the
\* run with no further model call or tool execution
C28_TimeLimitOnlyAtIterationStart ==
    /\ [][ (raised' # raised /\ raised'.kind \in GlobalLimitKinds) => pc = "loop" ]_vars
    /\ [][ (pc = "call" /\ pc' # pc /\ TimeIsUp) =>
              \/ raised'.kind = "APIError"
              \/ stats'.claude_calls = stats.claude_calls + 1 ]_vars
    /\ [][ (pc = "execute" /\ pc' # pc /\ TimeIsUp) =>
              /\ dispatched' = DefaultDictIncr(dispatched, tool_uses[idx].name)
              /\ raised'.type # "LimitExceededError" ]_vars
    /\ [][ (pc = "loop" /\ pc' # pc /\ TimeIsUp) =>
              /\ pc' = "report"
              /\ raised'.type = "LimitExceededError"
              /\ raised'.kind \in GlobalLimitKinds
              /\ stats'.claude_calls = stats.claude_calls
              /\ dispatched' = dispatched ]_vars
    /\ [][ (pc = "report" \/ pc = "returned") =>
              /\ stats'.claude_calls = stats.claude_calls
              /\ dispatched' = dispatched
              /\ raised' = raised ]_vars

\* the time ran out during the first iteration, whose model call and tool
\* execution completed; the second iteration stopped at its start
C28_Witness ==
    /\ pc = "report"
    /\ raised.kind = "timeout"
    /\ stats.iterations = 2
    /\ stats.claude_calls = 1
    /\ SumValues(dispatched) = MaxToolsPerTurn
    /\ Len(conversation_history) = 3

\* the first word of a query, uppercased
FirstWord(query) ==
    LET ends == { k \in 1..Len(query) : query[k] \in { " ", ";" } }
        stop == IF ends = {} THEN Len(query) + 1
                ELSE CHOOSE k \in ends : \A h \in ends : k <= h
    IN Upper(SubSeq(query, 1, stop - 1))

\* a pure read: a SELECT statement
PureSelect(query) == FirstWord(query) = KW_SELECT

\* the query with its trailing semicolon stripped and the default row cap appended
Capped(query) == RStrip(RStrip(query, { ";" }), Whitespace) \o LimitSuffix

\* C29: the execute_sql_query handler executes the query with " LIMIT 1000" appended
\* (trailing semicolon stripped) exactly when the query has no LIMIT and is a
\* SELECT statement; a query without LIMIT that is not a SELECT statement, and a
\* query that has LIMIT, are executed unchanged
C29_AutoLimitOnlyForPureSelect ==
    [][ (pc = "execute" /\ pc' # pc) =>
          LET query == tool_uses[idx].input.query
          IN /\ pc' = "record"
             /\ result'.success
             /\ result'.result.query =
                  IF ~Mentions(query, KW_LIMIT) /\ PureSelect(query)
                  THEN Capped(query)
                  ELSE query ]_vars

\* the cache key of the request the for loop is at
CurrentKey == CacheKey(tool_uses[idx].name, tool_uses[idx].input.etl_name)

\* execute_tool is about to be called for a caching reader
ReaderCall ==
    /\ pc = "execute"
    /\ tool_uses[idx].name \in CachingReaders
    /\ "etl_name" \in tool_uses[idx].input.keys

\* C30: a caching reader called again with the same etl_name after a successful
\* read returns the identical result without reading the storage; a failed read
\* is not cached; and the loop treats a cache hit as any other call: it is
\* counted in tool_calls and the quota applies to it
C30_CachedReadsAreIdentical ==
    /\ [][ (ReaderCall /\ pc' # pc /\ CurrentKey \in DOMAIN cache) =>
              /\ pc' = "record"
              /\ result' = [success |-> TRUE, result |-> cache[CurrentKey]]
              /\ storage_reads' = storage_reads
              /\ cache' = cache
              /\ dispatched' = DefaultDictIncr(dispatched, tool_uses[idx].name) ]_vars
    /\ [][ (ReaderCall /\ pc' # pc /\ CurrentKey \notin DOMAIN cache) =>
              /\ pc' = "record"
              /\ storage_reads' = DefaultDictIncr(storage_reads, CurrentKey)
              /\ IF result'.success
                 THEN /\ DOMAIN cache' = DOMAIN cache \cup { CurrentKey }
                      /\ cache'[CurrentKey] = result'.result
                 ELSE cache' = cache ]_vars
    /\ [][ \A k \in DOMAIN cache :
              /\ k \in DOMAIN cache'
              /\ cache'[k] = cache[k]
              /\ storage_reads'[k] = storage_reads[k] ]_vars
    /\ [][ (pc = "record" /\ pc' # pc) =>
              stats'.tool_calls = DefaultDictIncr(stats.tool_calls, tool_uses[idx].name) ]_vars
    /\ [][ ( /\ pc = "for" /\ pc' # pc /\ idx <= Len(tool_uses)
             /\ DefaultDictGet(stats.tool_calls, tool_uses[idx].name)
                   >= ToolLimit(limits, tool_uses[idx].name) ) =>
               (pc' = "report" /\ dispatched' = dispatched) ]_vars
    /\ [](( /\ Len(tool_results) = 2
            /\ tool_uses[1].name = tool_uses[2].name
            /\ tool_uses[1].input = tool_uses[2].input
            /\ tool_results[1].content.json.success ) =>
              /\ tool_results[2].content = tool_results[1].content
              /\ storage_reads[CacheKey(tool_uses[1].name, tool_uses[1].input.etl_name)] = 1)

\* the same reader was asked twice for the same etl_name: the second result is
\* the first, the storage was read once, both calls are counted
C30_Witness ==
    /\ pc = "for"
    /\ Len(tool_results) = 2
    /\ tool_uses[1].name = "read_brb_requirements"
    /\ tool_uses[2] = [tool_uses[1] EXCEPT !.id = << 1, 2 >>]
    /\ tool_results[1].content.json.success
    /\ tool_results[2].content = tool_results[1].content
    /\ storage_reads[<< "brb", tool_uses[1].input.etl_name >>] = 1
    /\ DefaultDictGet(stats.tool_calls, "read_brb_requirements") = 2
    /\ DefaultDictGet(dispatched, "read_brb_requirements") = 2

\* the elements of a sequence
Range(seq) == { seq[k] : k \in 1..Len(seq) }

\* C31: every model call of a run is handed the same ordered sequence of tool
\* definitions, and the names in it are pairwise distinct
C31_ToolDefinitionsStable ==
    /\ [][ (pc = "call" /\ pc' # pc) => offered' = ToolDefinitionNames ]_vars
    /\ [][ offered # << >> => offered' = offered ]_vars
    /\ [](\A i, j \in 1..Len(offered) : offered[i] = offered[j] => i = j)

\* the second model call of a run, after a tool turn, has been made
C31_Witness ==
    /\ stats.claude_calls = 2
    /\ SumValues(stats.tool_calls) >= 1
    /\ Len(offered) = 8
    /\ offered[1] = "read_sql_code"
    /\ offered[8] = "execute_sql_query"

\* the model calls the run has made: those that returned and the one that raised
ModelCallsMade == stats.claude_calls + (IF raised.kind = "APIError" THEN 1 ELSE 0)

\* C32: a run on a fresh orchestrator with max_iterations = N >= 1 makes at most
\* N - 1 model calls, since a call is made only in an iteration numbered below N;
\* with N = 1 the first iteration aborts with the iteration limit, no call made
C32_AtMostNMinusOneModelCalls ==
    /\ [](limits.max_iterations >= 1 => ModelCallsMade <= limits.max_iterations - 1)
    /\ [](pc = "call" => stats.iterations < limits.max_iterations)
    /\ [][ (pc = "loop" /\ pc' # pc /\ limits.max_iterations = 1) =>
              /\ pc' = "report"
              /\ raised'.kind = "iterations"
              /\ stats'.claude_calls = 0
              /\ offered' = << >> ]_vars

\* the run made all the model calls max_iterations allows and was then stopped
C32_Witness ==
    /\ pc = "report"
    /\ raised.kind = "iterations"
    /\ limits.max_iterations = MaxIter
    /\ stats.iterations = MaxIter
    /\ stats.claude_calls = MaxIter - 1

\* the positions of the tool_result blocks of a conversation: turn and index
ToolResultBlocks(conv) ==
    UNION { { << k, i >> : i \in { j \in 1..Len(conv[k].content) :
                                     conv[k].content[j].type = "tool_result" } } :
            k \in 2..Len(conv) }

\* C33: in the outcome of any run the conversation holds as many tool_result
\* blocks as the tool_calls counters of the stats add up to, also when the run
\* was aborted at a later invocation of a turn
C33_CountedCallsAreRecorded ==
    pc = "returned" =>
        Cardinality(ToolResultBlocks(outcome.conversation_history))
            = SumValues(outcome.stats.tool_calls)

\* C34: once run() has set the conversation it starts with the user task, its
\* roles alternate user, assistant, user, ..., it holds one assistant turn and one
\* user turn of matching results for each completed tool-use turn and nothing
\* else (length 1 + 2 * completed turns), and so it ends with a user turn, in the
\* returned outcome too
C34_ConversationAlternates ==
    pc # "idle" =>
        /\ Len(conversation_history) >= 1
        /\ conversation_history[1] = [role |-> "user", content |-> Str("task")]
        /\ \A k \in 1..Len(conversation_history) :
             conversation_history[k].role = IF k % 2 = 1 THEN "user" ELSE "assistant"
        /\ Len(conversation_history) % 2 = 1
        /\ \A k \in 1..Len(conversation_history) :
             k % 2 = 0 =>
               /\ k + 1 <= Len(conversation_history)
               /\ ResultsMatch(conversation_history[k + 1],
                               ToolUseBlocks(conversation_history[k].content))
        /\ pc = "returned" =>
             /\ outcome.conversation_history = conversation_history
             /\ outcome.conversation_history[Len(outcome.conversation_history)].role = "user"

\* the run ended at the limit check of an iteration or in a model call that raised
EndedBeforeResponse == raised.kind \in GlobalLimitKinds \cup { "APIError" }

\* C35: in a run on a fresh orchestrator claude_calls is iterations or
\* iterations - 1 in every state; at the end it is iterations - 1 when a global
\* limit or a failed model call ended the run, and iterations when the run ended
\* on a model response (final answer, unexpected signal, abort in a tool turn)
C35_ModelCallsTrackIterations ==
    /\ stats.iterations - 1 <= stats.claude_calls
    /\ stats.claude_calls <= stats.iterations
    /\ (pc = "report" \/ pc = "returned") =>
          stats.claude_calls = stats.iterations - (IF EndedBeforeResponse THEN 1 ELSE 0)
    /\ pc = "returned" =>
          /\ outcome.stats.iterations = stats.iterations
          /\ outcome.stats.claude_calls = stats.claude_calls

\* a run stopped by the model-call limit at the start of its second iteration
C35_Witness ==
    /\ pc = "returned"
    /\ raised.kind = "model_calls"
    /\ outcome.stats.iterations = 2
    /\ outcome.stats.claude_calls = 1

\* C36: a model call is issued only with total_cost < max_total_cost and
\* claude_calls < max_claude_calls; so claude_calls never exceeds max_claude_calls,
\* and total_cost exceeds max_total_cost by less than the cost of the last call
C36_BudgetCheckedBeforeCall ==
    /\ [](pc = "call" =>
             /\ stats.total_cost < limits.max_total_cost
             /\ stats.claude_calls < limits.max_claude_calls)
    /\ [](stats.claude_calls <= limits.max_claude_calls)
    /\ [][ (pc = "call" /\ pc' # pc) =>
              /\ stats'.claude_calls <= stats.claude_calls + 1
              /\ stats'.total_cost - limits.max_total_cost
                   < stats'.total_cost - stats.total_cost
              /\ \/ stats'.total_cost = stats.total_cost
                 \/ /\ WellFormedShape(response'.usage)
                    /\ stats'.total_cost
                         = stats.total_cost + EstimateCost(response'.usage) ]_vars
    /\ [][ pc # "call" => stats'.total_cost = stats.total_cost ]_vars
    /\ [](pc = "returned" =>
             /\ outcome.stats.total_cost = stats.total_cost
             /\ outcome.stats.claude_calls <= limits.max_claude_calls)

\* the budget was reached by the one call made, and the next iteration stopped
C36_Witness ==
    /\ pc = "returned"
    /\ raised.kind = "cost"
    /\ outcome.stats.claude_calls = 1
    /\ outcome.stats.total_cost >= limits.max_total_cost
    /\ outcome.stats.total_cost
         < limits.max_total_cost + EstimateCost([input_tokens |-> 1000, output_tokens |-> 1000])

\* the for loop is at a request it has not dispatched yet
BeforeDispatch == pc = "for" \/ pc = "validate"

\* the for loop is inside a tool turn
InToolTurn == pc = "for" \/ pc = "validate" \/ pc = "execute" \/ pc = "record"

\* C37: a request refused by _check_tool_limit or _validate_sql is not handed to
\* its handler and does not raise its tool's counter, and the conversation,
\* claude_calls and total_cost stay as the model call of the iteration left them,
\* up to the returned outcome
C37_RejectionChangesNothing ==
    /\ [][ (BeforeDispatch /\ pc' = "report") =>
              /\ raised'.type = "LimitExceededError"
              /\ raised'.kind \in { "tool_quota", "sql_blocked_keyword", "sql_missing_limit" }
              /\ dispatched' = dispatched
              /\ tools' = tools
              /\ \A t \in DOMAIN stats'.tool_calls :
                   stats'.tool_calls[t] = DefaultDictGet(stats.tool_calls, t)
              /\ conversation_history' = conversation_history
              /\ stats'.claude_calls = stats.claude_calls
              /\ stats'.total_cost = stats.total_cost ]_vars
    /\ [][ (InToolTurn /\ pc' # "loop") =>
              /\ conversation_history' = conversation_history
              /\ stats'.claude_calls = stats.claude_calls
              /\ stats'.total_cost = stats.total_cost ]_vars
    /\ [][ (pc = "report" /\ pc' # pc) =>
              /\ outcome'.stats.tool_calls = stats.tool_calls
              /\ outcome'.stats.claude_calls = stats.claude_calls
              /\ outcome'.stats.total_cost = stats.total_cost
              /\ outcome'.conversation_history = conversation_history
              /\ dispatched' = dispatched
              /\ tools' = tools ]_vars

\* a query with a blocked keyword was refused: nothing dispatched, nothing counted
C37_Witness ==
    /\ pc = "returned"
    /\ raised.kind = "sql_blocked_keyword"
    /\ "execute_sql_query" \in DOMAIN outcome.stats.tool_calls
    /\ outcome.stats.tool_calls["execute_sql_query"] = 0
    /\ DefaultDictGet(dispatched, "execute_sql_query") = 0
    /\ DefaultDictGet(requested, "execute_sql_query") = 1
    /\ Len(outcome.conversation_history) = 1
    /\ outcome.stats.claude_calls = 1

\* C38: every invocation execute_tool returns from raises its tool's counter by
\* one, a {success: false} result (failed handler, unregistered name) as much as
\* a success, and nothing else raises a counter; an unregistered name gets its
\* own entry in stats.tool_calls; and the quota check counts the failed
\* invocations like the others
C38_FailuresConsumeQuota ==
    /\ [][ (pc = "execute" /\ pc' # pc) =>
              /\ stats' = stats
              /\ pc' = "record" \/ raised'.type = "SystemExit" ]_vars
    /\ [][ (pc = "record" /\ pc' # pc) =>
              stats'.tool_calls = DefaultDictIncr(stats.tool_calls, tool_uses[idx].name) ]_vars
    /\ [][ pc # "record" =>
              \A t \in DOMAIN stats'.tool_calls :
                 stats'.tool_calls[t] = DefaultDictGet(stats.tool_calls, t) ]_vars
    /\ [][ (pc = "record" /\ pc' # pc /\ tool_uses[idx].name \notin ToolMethods) =>
              /\ result = [success |-> FALSE, error |-> "Tool non trovato"]
              /\ tool_uses[idx].name \in DOMAIN stats'.tool_calls
              /\ stats'.tool_calls[tool_uses[idx].name] >= 1 ]_vars
    /\ [][ ( /\ pc = "for" /\ pc' # pc /\ idx <= Len(tool_uses)
             /\ DefaultDictGet(dispatched, tool_uses[idx].name)
                   >= ToolLimit(limits, tool_uses[idx].name) ) =>
               pc' = "report" ]_vars

\* an invocation of an unregistered tool failed and was counted
C38_Witness ==
    /\ pc = "for"
    /\ idx = 2
    /\ tool_uses[1].name = "no_such_tool"
    /\ tool_results[1].content.json.success = FALSE
    /\ "no_such_tool" \in DOMAIN stats.tool_calls
    /\ stats.tool_calls["no_such_tool"] = 1

\* execute_tool answered that it has no such tool
ToolNotFound(res) == ~res.success /\ res.error = "Tool non trovato"

\* C39: the names get_tool_definitions lists are the names execute_tool can
\* dispatch: a name offered to the model never gets the 'tool not found' answer,
\* a name not offered always does, and every key of the default tool_limits is
\* one of these names
C39_DefinitionsMatchHandlers ==
    /\ [](Range(ToolDefinitionNames) = ToolMethods)
    /\ [](DOMAIN DefaultToolLimits \subseteq Range(ToolDefinitionNames))
    /\ [](DOMAIN DefaultToolLimits \subseteq ToolMethods)
    /\ [][ (pc = "execute" /\ pc' = "record") =>
              (ToolNotFound(result') <=> tool_uses[idx].name \notin Range(offered)) ]_vars
    /\ [][ (pc = "execute" /\ pc' # pc /\ tool_uses[idx].name \notin Range(offered)) =>
              pc' = "record" ]_vars

\* a tool that was offered to the model has been dispatched to its handler
C39_Witness ==
    /\ pc = "record"
    /\ tool_uses[idx].name = "execute_sql_query"
    /\ tool_uses[idx].name \in Range(offered)
    /\ tool_uses[idx].name \in DOMAIN limits.tool_limits
    /\ ~ToolNotFound(result)
    /\ stats.claude_calls = 1

====
